---- MODULE Spec2Model ----
(***************************************************************************)
(* Service-area redundancy analysis of the Missouri healthcare facilities  *)
(* (src/src/analysis/redundancy_analysis.py), as a state machine.          *)
(*                                                                         *)
(* analyze_service_redundancy is one batch function; its loops are the     *)
(* steps of the machine: the three loaders read one source row per step,   *)
(* the matrix builder and the overlap counter run one outer iteration per  *)
(* step, the clustering pass visits one seed per step.                     *)
(* run_full_analysis.main (src/src/run_full_analysis.py) is modelled around *)
(* it: the file check, the call of the analysis, the map and summary steps. *)
(*                                                                         *)
(* Units.  Latitudes and longitudes are integers in 1/DegScale degrees,    *)
(* distances are integers in 1/MileScale miles.  Python indexes rows from  *)
(* 0; the sequences below index them from 1, in the same order.            *)
(***************************************************************************)
EXTENDS Integers, Sequences, FiniteSets

VARIABLES
    pc,                 \* position in analyze_service_redundancy
    rows_read,          \* source rows read so far, over the three files
    facilities,         \* the list `facilities` / facilities_df rows
    distances,          \* the matrix `distances`
    i,                  \* the running index of the loop in progress
    overlaps,           \* facilities_df['overlaps']
    breakdown,          \* per facility: neighbour type -> count (type_counts)
    overlap_details,    \* indexes appended to overlap_details
    top_redundant,      \* facilities_df.nlargest(15, 'overlaps'), as indexes
    isolated,           \* facilities_df[overlaps == 0], as indexes
    total_overlaps,     \* a rational [num, den]
    redundancy_score,   \* a rational [num, den]
    high_overlap,       \* facilities_df[overlaps >= 5], as indexes
    visited,            \* the set `visited`
    started,            \* seeds that started a cluster, in order
    consolidation_opportunities,
    cluster_city,       \* the city printed for each of the first clusters
    potential_savings,
    results,            \* the dict written to the JSON report
    last_cluster,       \* the list `cluster` of the last seed that started one
    isolated_counts,    \* the isolated facilities counted per type
    haversine_calls,    \* the index pairs haversine_distance was called on
    source_rows,        \* the coordinates of the rows of the three source
                        \* frames iterated so far, while the loaders run
    args,               \* run_full_analysis.main: the parsed arguments
    files,              \* the data files that exist
    main_pc,            \* position in main
    exit_code,          \* the value main returned
    steps,              \* the steps main ran, with their outcome
    pair,               \* the two points handed to haversine_distance
    measured,           \* the distances it returned
    input_file,         \* the rows of the CSV file a data-processing script reads
    df,                 \* the DataFrame `df` of a data-processing function
    idx,                \* the row `for idx, row in df.iterrows()` stands at
    corrections_applied,
    output_file,        \* the rows written by df.to_csv(output_file)
    calls,              \* the data-processing functions applied to df, in order
    data_pc             \* position in the data-processing script

\* the state of run_full_analysis.main
main_vars == << args, files, main_pc, exit_code, steps >>

\* the state of one direct evaluation of haversine_distance
haversine_vars == << pair, measured >>

\* the state of the data-processing scripts
data_vars == << input_file, df, idx, corrections_applied, output_file, calls,
               data_pc >>

vars == << pc, rows_read, facilities, distances, i, overlaps, breakdown,
           overlap_details, top_redundant, isolated, total_overlaps,
           redundancy_score, high_overlap, visited, started,
           consolidation_opportunities, cluster_city, potential_savings,
           results, last_cluster, isolated_counts, haversine_calls, source_rows,
           main_vars,
           haversine_vars, data_vars >>

---------------------------------------------------------------------------
(* Bounds of the model *)

\* rows read in all, when the rows may carry any coordinates
MaxRows == 3
\* rows read in all, when every row is a well-formed clinic
MaxDense == 7
\* rows read in all, when well-formed rows come from all three files
MaxMixed == 5
\* rows read in all, when well-formed clinics stand at four places
MaxSpread == 6
\* rows read in all, when one town holds more clinics than the ranking shows
MaxMany == 17

---------------------------------------------------------------------------
(* Numbers *)

\* a missing / not-a-number float: no finite coordinate or distance has this value
NaN == 2000000000
\* coordinate unit: 1/DegScale degree
DegScale == 100000
\* distance unit: 1/MileScale mile
MileScale == 1000
\* pi as PiNum/PiDen in math.radians
PiNum == 355
PiDen == 113
\* a missing city label (NaN in the city column)
NoCity == 0
\* the placeholder printed when no city label has a most frequent value
Multiple == 99

Abs(x) == IF x < 0 THEN -x ELSE x

isna(x) == x = NaN

\* float comparison: every ordered comparison with NaN is False, != is True
FloatLe(a, b) == ~isna(a) /\ ~isna(b) /\ a <= b
FloatNe(a, b) == isna(a) \/ isna(b) \/ a # b

RECURSIVE SumSeq(_)
SumSeq(s) == IF s = << >> THEN 0 ELSE Head(s) + SumSeq(Tail(s))

Min(S) == CHOOSE v \in S : \A w \in S : v <= w

\* the row indexes of S in increasing order: the rows a boolean mask selects,
\* or the indexes a loop over range(n) collects, keep their order
RECURSIVE Rows(_)
Rows(S) == IF S = {} THEN << >> ELSE << Min(S) >> \o Rows(S \ {Min(S)})

Range(s) == { s[k] : k \in 1..Len(s) }

---------------------------------------------------------------------------
(* haversine_distance *)

\* Earth radius in miles
R == 3959

\* R * radians(ddeg), in 1/MileScale miles, for ddeg in 1/DegScale degrees:
\* ddeg/DegScale * (PiNum/PiDen)/180 * R * MileScale, the factors reduced by 5
\* so that every intermediate product stays inside 32 bits.
ArcMiles(ddeg) ==
    (((ddeg * R) \div PiDen) * (PiNum \div 5))
        \div ((180 * (DegScale \div MileScale)) \div 5)

\* the arc taken with its sign, the second point minus the first
haversine_signed(lat1, lon1, lat2, lon2) ==
    CASE isna(lat1) \/ isna(lon1) \/ isna(lat2) \/ isna(lon2) -> NaN
      [] lon1 = lon2 -> ArcMiles(lat2 - lat1)
      [] lat1 = 0 /\ lat2 = 0 -> ArcMiles(lon2 - lon1)

\* a = sin(dlat/2)^2 + cos(lat1) cos(lat2) sin(dlon/2)^2, c = 2 atan2(sqrt a, sqrt(1-a)).
\* With dlon = 0, a = sin(dlat/2)^2 and c = |dlat|; with lat1 = lat2 = 0,
\* a = sin(dlon/2)^2 and c = |dlon|.  Any NaN operand makes the result NaN.
\* The rows of this development keep every finite pair on one meridian (or on
\* the equator), where the closed form is exact.
haversine_distance(lat1, lon1, lat2, lon2) ==
    CASE isna(lat1) \/ isna(lon1) \/ isna(lat2) \/ isna(lon2) -> NaN
      [] lon1 = lon2 -> ArcMiles(Abs(lat2 - lat1))
      [] lat1 = 0 /\ lat2 = 0 -> ArcMiles(Abs(lon2 - lon1))

---------------------------------------------------------------------------
(* Source rows *)

LonA == -9200000

\* Latitudes 38.00000, +10 miles, +20 miles, +20.01 miles on the meridian LonA
Lat0 == 3800000
Lat10  == 3814473
Lat20  == 3828945
Lat2001 == 3828960

\* rows of any quality: zero, missing and finite coordinates
AnyRows ==
    [ lat : {0, NaN, Lat0, Lat20, Lat2001}, lon : {0, NaN, LonA}, city : {1} ]

\* well-formed clinics at three places, 0, 10 and 20.01 miles along the
\* meridian: the ends are outside each other's service radius
DenseRows ==
    [ lat : {Lat0, Lat10, Lat2001}, lon : {LonA}, city : {1} ]

\* well-formed clinics at three places, 0, 10 and 20 miles along the meridian:
\* the middle is within the consolidation radius of both ends
ChainRows ==
    [ lat : {Lat0, Lat10, Lat20}, lon : {LonA}, city : {1} ]

\* Latitudes 38.1 and 43.0, longitudes 0.1 and 5.0: 0.1 and 5 degrees of arc
\* from the first point of a line
LatTenth == 3810000
LatFive == 4300000
LonTenth == 10000
LonFive == 500000

\* three facilities on the equator: (0, 0), (0, 0.1) and (0, 5.0)
EquatorLine ==
    << [lat |-> 0, lon |-> 0], [lat |-> 0, lon |-> LonTenth],
       [lat |-> 0, lon |-> LonFive] >>

\* the same line on the meridian LonA, from latitude 38
MeridianLine ==
    << [lat |-> Lat0, lon |-> LonA], [lat |-> LatTenth, lon |-> LonA],
       [lat |-> LatFive, lon |-> LonA] >>

\* rows at the points of the two lines
LineRows ==
    { [lat |-> p.lat, lon |-> p.lon, city |-> 1] :
        p \in Range(EquatorLine) \cup Range(MeridianLine) }

\* points handed to haversine_distance: on the meridian LonA and on the
\* equator, within 5.1 degrees of each other
MeridianPoints ==
    [ lat : {Lat0, Lat10, Lat20, Lat2001, LatTenth, LatFive}, lon : {LonA} ]
EquatorPoints ==
    [ lat : {0},
      lon : {-LonTenth, 0, LonTenth, LonFive - LonTenth, LonFive} ]
PointPairs ==
    (MeridianPoints \X MeridianPoints) \cup (EquatorPoints \X EquatorPoints)

\* well-formed rows of two towns 20 miles apart, read in a run of main
MainRows ==
    [ lat : {Lat0, Lat20}, lon : {LonA}, city : {1} ]

\* hospitals in either of two towns 20.01 miles apart
TwoTownRows ==
    [ lat : {Lat0, Lat2001}, lon : {LonA}, city : {1} ]

\* clinics of one town
TownRows ==
    [ lat : {Lat0}, lon : {LonA}, city : {1} ]

\* well-formed clinics at four places, 0, 10, 20 and 20.01 miles along the
\* meridian
SpreadRows ==
    [ lat : {Lat0, Lat10, Lat20, Lat2001}, lon : {LonA}, city : {1} ]

\* well-formed clinics at one place, the city label free (or missing)
CityRows ==
    [ lat : {Lat0}, lon : {LonA}, city : {NoCity, 1, 2} ]

---------------------------------------------------------------------------
(* Loading: lines 36-116 *)

Facility(type, row) ==
    [ type |-> type, lat |-> row.lat, lon |-> row.lon, city |-> row.city ]

\* line 75: if lat != 0 and lon != 0
HospitalAccepted(row) == FloatNe(row.lat, 0) /\ FloatNe(row.lon, 0)

\* the RHC test rejecting the point (0, 0) alone
RhcAcceptedOffOrigin(row) ==
    /\ ~isna(row.lat) /\ ~isna(row.lon)
    /\ ~(row.lat = 0 /\ row.lon = 0)

\* line 53 (rows with a missing coordinate dropped on reading) and line 89
RhcAccepted(row) ==
    /\ ~isna(row.lat) /\ ~isna(row.lon)
    /\ FloatNe(row.lat, 0) /\ FloatNe(row.lon, 0)
    /\ ~isna(row.lat) /\ ~isna(row.lon)

\* line 106: if lat != 0 and lon != 0
FqhcAccepted(row) == FloatNe(row.lat, 0) /\ FloatNe(row.lon, 0)

\* the three data files main looks for (lines 47-51)
DataFiles == {"hospitals", "rhcs", "fqhcs"}

\* no exit code yet
NoExit == -1

\* the locals of analyze_service_redundancy before its first statement
Fresh ==
    /\ rows_read = 0
    /\ source_rows = << >>
    /\ facilities = << >>
    /\ distances = << >>
    /\ i = 0
    /\ overlaps = << >>
    /\ breakdown = << >>
    /\ overlap_details = << >>
    /\ top_redundant = << >>
    /\ isolated = << >>
    /\ total_overlaps = [num |-> 0, den |-> 1]
    /\ redundancy_score = [num |-> 0, den |-> 1]
    /\ high_overlap = << >>
    /\ visited = {}
    /\ started = << >>
    /\ consolidation_opportunities = << >>
    /\ cluster_city = << >>
    /\ potential_savings = 0
    /\ results = << >>
    /\ last_cluster = << >>
    /\ haversine_calls = << >>
    /\ isolated_counts = << >>

\* main is not running
NoMain ==
    /\ args = << >>
    /\ files = DataFiles
    /\ main_pc = "none"
    /\ exit_code = NoExit
    /\ steps = << >>

\* haversine_distance is not evaluated on its own
NoCall ==
    /\ pair = << >>
    /\ measured = << >>

\* no data-processing script is running
NoData ==
    /\ input_file = << >>
    /\ df = << >>
    /\ idx = 0
    /\ corrections_applied = 0
    /\ output_file = << >>
    /\ calls = << >>
    /\ data_pc = "none"

\* line 320: analyze_service_redundancy() run as a script
Init ==
    /\ pc = "hospitals"
    /\ Fresh
    /\ NoMain
    /\ NoCall
    /\ NoData

\* the coordinate columns of a source row
Coordinates(row) == [lat |-> row.lat, lon |-> row.lon]

analysis_vars == << distances, i, overlaps, breakdown, overlap_details,
                    top_redundant, isolated, total_overlaps, redundancy_score,
                    high_overlap, visited, started,
                    consolidation_opportunities, cluster_city,
                    potential_savings, results, last_cluster, haversine_calls,
                    isolated_counts >>

\* haversine_distance about to be evaluated on a pair of points
InitDistance ==
    /\ pc = "haversine"
    /\ Fresh
    /\ NoMain
    /\ pair \in PointPairs
    /\ measured = << >>
    /\ NoData

\* the distance between the two points in both directions, and from each
\* point to itself
Measure ==
    /\ pc = "haversine"
    /\ measured' =
          LET a == pair[1]
              b == pair[2]
          IN  [ ab |-> haversine_distance(a.lat, a.lon, b.lat, b.lon),
                ba |-> haversine_distance(b.lat, b.lon, a.lat, a.lon),
                aa |-> haversine_distance(a.lat, a.lon, a.lat, a.lon),
                bb |-> haversine_distance(b.lat, b.lon, b.lat, b.lon) ]
    /\ pc' = "measured"
    /\ UNCHANGED << rows_read, facilities, source_rows, analysis_vars,
                    main_vars, pair, data_vars >>

\* one iteration of `for _, hosp in hospitals.iterrows()`; a row whose name
\* matches PSYCHIATRIC|MENTAL|SHRINERS|RANKEN was dropped at line 44
ReadHospital(rows, max) ==
    /\ pc = "hospitals"
    /\ rows_read < max
    /\ \E row \in rows, excluded \in BOOLEAN :
          /\ facilities' = IF ~excluded /\ HospitalAccepted(row)
                           THEN Append(facilities, Facility("Hospital", row))
                           ELSE facilities
          /\ source_rows' = IF excluded THEN source_rows
                            ELSE Append(source_rows, Coordinates(row))
    /\ rows_read' = rows_read + 1
    /\ UNCHANGED << pc, analysis_vars, main_vars, haversine_vars, data_vars >>

\* the hospital rows are exhausted (or the file does not exist)
EndHospitals ==
    /\ pc = "hospitals"
    /\ pc' = "rhcs"
    /\ UNCHANGED << rows_read, facilities, source_rows, analysis_vars,
                    main_vars, haversine_vars, data_vars >>

ReadRHC(rows, max) ==
    /\ pc = "rhcs"
    /\ rows_read < max
    /\ \E row \in rows :
          /\ facilities' = IF RhcAccepted(row)
                           THEN Append(facilities, Facility("RHC", row))
                           ELSE facilities
          /\ source_rows' = Append(source_rows, Coordinates(row))
    /\ rows_read' = rows_read + 1
    /\ UNCHANGED << pc, analysis_vars, main_vars, haversine_vars, data_vars >>

EndRHCs ==
    /\ pc = "rhcs"
    /\ pc' = "fqhcs"
    /\ UNCHANGED << rows_read, facilities, source_rows, analysis_vars,
                    main_vars, haversine_vars, data_vars >>

ReadFQHC(rows, max) ==
    /\ pc = "fqhcs"
    /\ rows_read < max
    /\ \E row \in rows :
          /\ facilities' = IF FqhcAccepted(row)
                           THEN Append(facilities, Facility("FQHC", row))
                           ELSE facilities
          /\ source_rows' = Append(source_rows, Coordinates(row))
    /\ rows_read' = rows_read + 1
    /\ UNCHANGED << pc, analysis_vars, main_vars, haversine_vars, data_vars >>

n_facilities == Len(facilities)

\* np.zeros((n, n))
Zeros(n) == [ a \in 1..n |-> [ b \in 1..n |-> 0 ] ]

\* lines 116-125: the frame is built and the coordinate columns selected.  A
\* frame built from an empty list has no columns, and facilities_df[['lat',
\* 'lon']] raises KeyError.  The source frames are not read after line 114:
\* the model forgets their rows once facilities_df stands.
EndFQHCs ==
    /\ pc = "fqhcs"
    /\ IF facilities = << >>
       THEN /\ pc' = "error"
            /\ UNCHANGED << distances, i, source_rows >>
       ELSE /\ pc' = "matrix"
            /\ distances' = Zeros(n_facilities)
            /\ i' = 1
            /\ source_rows' = << >>
    /\ UNCHANGED << main_vars, haversine_vars, data_vars, last_cluster,
                    haversine_calls, isolated_counts >>
    /\ UNCHANGED << rows_read, facilities, overlaps, breakdown,
                    overlap_details, top_redundant, isolated, total_overlaps,
                    redundancy_score, high_overlap, visited, started,
                    consolidation_opportunities, cluster_city,
                    potential_savings, results >>

---------------------------------------------------------------------------
(* Distance matrix: lines 126-133 *)

Dist(a, b) ==
    haversine_distance(facilities[a].lat, facilities[a].lon,
                       facilities[b].lat, facilities[b].lon)

\* the inner loop writing the result to distances[i][j] alone
MatrixRowUpperOnly(d, a) ==
    [ x \in 1..n_facilities |->
        [ y \in 1..n_facilities |->
            IF x = a /\ y > a THEN Dist(a, y) ELSE d[x][y] ] ]

\* the inner loop for one i: for j in range(i+1, n): d[i][j] = d[j][i] = dist
MatrixRow(d, a) ==
    [ x \in 1..n_facilities |->
        [ y \in 1..n_facilities |->
            IF x = a /\ y > a THEN Dist(a, y)
            ELSE IF y = a /\ x > a THEN Dist(a, x)
            ELSE d[x][y] ] ]

\* the calls of an inner loop running over every other row
CallsOfRowBothWays(a) ==
    [ k \in 1..(n_facilities - 1) |-> << a, IF k < a THEN k ELSE k + 1 >> ]

\* lines 127-128: for j in range(i+1, n): haversine_distance(row i, row j)
CallsOfRow(a) == [ k \in 1..(n_facilities - a) |-> << a, a + k >> ]

BuildMatrix ==
    /\ pc = "matrix"
    /\ IF i <= n_facilities
       THEN /\ distances' = MatrixRow(distances, i)
            /\ haversine_calls' = haversine_calls \o CallsOfRow(i)
            /\ i' = i + 1
            /\ UNCHANGED << pc, overlaps, breakdown >>
       ELSE /\ pc' = "count"
            /\ i' = 1
            \* lines 144-145: the new columns
            /\ overlaps' = [ k \in 1..n_facilities |-> 0 ]
            /\ breakdown' = [ k \in 1..n_facilities |-> [ t \in {} |-> 0 ] ]
            /\ UNCHANGED << distances, haversine_calls >>
    /\ UNCHANGED << source_rows, main_vars, haversine_vars, data_vars, last_cluster,
                    isolated_counts >>
    /\ UNCHANGED << rows_read, facilities, overlap_details, top_redundant,
                    isolated, total_overlaps, redundancy_score, high_overlap,
                    visited, started, consolidation_opportunities,
                    cluster_city, potential_savings, results >>

---------------------------------------------------------------------------
(* Overlap counting: lines 135-170 *)

\* service radius in miles (30-minute drive in rural areas)
SERVICE_RADIUS == 20

\* the comparison as a strict one
WithinRadiusStrict(dist) ==
    ~isna(dist) /\ dist < SERVICE_RADIUS * MileScale

\* line 154: distances[i][j] <= SERVICE_RADIUS
WithinRadius(dist) == FloatLe(dist, SERVICE_RADIUS * MileScale)

\* the consolidation radius as SERVICE_RADIUS*2
WithinDoubleRadius(dist) ==
    ~isna(dist) /\ dist <= SERVICE_RADIUS * MileScale * 2

\* line 256: distances[i][j] <= SERVICE_RADIUS/2
WithinHalfRadius(dist) == ~isna(dist) /\ 2 * dist <= SERVICE_RADIUS * MileScale

\* the inner loop started at i + 1, as the matrix loop is
OverlappingAfter(d, a) ==
    Rows({ j \in 1..n_facilities : j > a /\ WithinRadius(d[a][j]) })

\* the inner loop for one i: the indexes j appended to `overlapping`, in order
Overlapping(d, a) ==
    Rows({ j \in 1..n_facilities : j # a /\ WithinRadius(d[a][j]) })

\* the breakdown counting the facility itself with its neighbours
TypeCountsWithSelf(js) ==
    [ t \in { facilities[js[k]].type : k \in 1..Len(js) } |->
        Cardinality({ k \in 1..Len(js) : facilities[js[k]].type = t }) + 1 ]

\* pd.Series(overlapping).value_counts(), as type -> count over the types present
TypeCounts(js) ==
    [ t \in { facilities[js[k]].type : k \in 1..Len(js) } |->
        Cardinality({ k \in 1..Len(js) : facilities[js[k]].type = t }) ]

CountOverlaps ==
    /\ pc = "count"
    /\ IF i <= n_facilities
       THEN LET overlapping == Overlapping(distances, i)
                overlap_count == Len(overlapping)
            IN  /\ overlaps' = [overlaps EXCEPT ![i] = overlap_count]
                /\ IF overlap_count > 0
                   THEN /\ breakdown' =
                              [breakdown EXCEPT ![i] = TypeCounts(overlapping)]
                        /\ overlap_details' = Append(overlap_details, i)
                   ELSE UNCHANGED << breakdown, overlap_details >>
                /\ i' = i + 1
                /\ UNCHANGED pc
       ELSE /\ pc' = "rank"
            /\ UNCHANGED << i, overlaps, breakdown, overlap_details >>
    /\ UNCHANGED << source_rows, main_vars, haversine_vars, data_vars, last_cluster,
                    haversine_calls, isolated_counts >>
    /\ UNCHANGED << rows_read, facilities, distances, top_redundant, isolated,
                    total_overlaps, redundancy_score, high_overlap, visited,
                    started, consolidation_opportunities, cluster_city,
                    potential_savings, results >>

---------------------------------------------------------------------------
(* Ranking: lines 189-196 *)

\* the number of rows shown as highest-redundancy locations
TopK == 15

\* the last index holding the largest value: nlargest with keep='last'
ArgMaxLast(ov, left) ==
    CHOOSE a \in left :
        \A b \in left : ov[a] > ov[b] \/ (ov[a] = ov[b] /\ a >= b)

\* the first index holding the largest value among the indexes of `left`
ArgMaxFirst(ov, left) ==
    CHOOSE a \in left :
        \A b \in left : ov[a] > ov[b] \/ (ov[a] = ov[b] /\ a <= b)

\* DataFrame.nlargest(k, column), keep='first': the k largest in descending
\* order, equal values in their original order
RECURSIVE NLargestFrom(_, _, _)
NLargestFrom(k, ov, left) ==
    IF k = 0 \/ left = {} THEN << >>
    ELSE LET a == ArgMaxFirst(ov, left)
         IN  << a >> \o NLargestFrom(k - 1, ov, left \ {a})

nlargest(k, ov) == NLargestFrom(k, ov, DOMAIN ov)

Rank ==
    /\ pc = "rank"
    /\ top_redundant' = nlargest(TopK, overlaps)
    /\ pc' = "efficiency"
    /\ UNCHANGED << source_rows, main_vars, haversine_vars, data_vars, last_cluster,
                    haversine_calls, isolated_counts >>
    /\ UNCHANGED << rows_read, facilities, distances, i, overlaps, breakdown,
                    overlap_details, isolated, total_overlaps,
                    redundancy_score, high_overlap, visited, started,
                    consolidation_opportunities, cluster_city,
                    potential_savings, results >>

---------------------------------------------------------------------------
(* Isolated facilities and the redundancy score: lines 220-247 *)

\* facilities_df[facilities_df['overlaps'] == 0]
Isolated(ov) == Rows({ k \in 1..Len(ov) : ov[k] = 0 })

\* the facility types the loaders assign
Types == {"Hospital", "RHC", "FQHC"}

\* lines 222-224: len(isolated[isolated['type'] == t]) for the three types
IsolatedCounts(rows) ==
    [ t \in Types |->
        Cardinality({ k \in Range(rows) : facilities[k].type = t }) ]

\* a rational divided by an integer
RatDiv(q, k) == [num |-> q.num, den |-> q.den * k]

\* the sum of the counts taken as the number of overlaps, without halving
TotalOverlapsUnhalved(ov) == [num |-> SumSeq(ov), den |-> 1]

\* line 233: facilities_df['overlaps'].sum() / 2
TotalOverlaps(ov) == RatDiv([num |-> SumSeq(ov), den |-> 1], 2)

\* the score taken over the facilities that have an overlap
RedundancyScoreOfOverlapping(total) == RatDiv(total, Len(overlap_details))

\* line 234: total_overlaps / len(facilities_df)
RedundancyScore(total) == RatDiv(total, n_facilities)

\* the threshold of a high-overlap facility
HighOverlap == 5

\* the high-overlap rows taken from the ranking, largest count first
HighOverlapRanked(ov) ==
    SelectSeq(nlargest(Len(ov), ov), LAMBDA k : ov[k] >= HighOverlap)

\* line 243: facilities_df[facilities_df['overlaps'] >= 5], in index order
HighOverlapRows(ov) == Rows({ k \in 1..Len(ov) : ov[k] >= HighOverlap })

Efficiency ==
    /\ pc = "efficiency"
    /\ isolated' = Isolated(overlaps)
    /\ isolated_counts' = IsolatedCounts(Isolated(overlaps))
    /\ total_overlaps' = TotalOverlaps(overlaps)
    /\ redundancy_score' = RedundancyScore(TotalOverlaps(overlaps))
    /\ high_overlap' = HighOverlapRows(overlaps)
    /\ consolidation_opportunities' = << >>
    /\ visited' = {}
    /\ i' = 1
    /\ pc' = "cluster"
    /\ UNCHANGED << source_rows, main_vars, haversine_vars, data_vars, last_cluster,
                    haversine_calls >>
    /\ UNCHANGED << rows_read, facilities, distances, overlaps, breakdown,
                    overlap_details, top_redundant, started, cluster_city,
                    potential_savings, results >>

---------------------------------------------------------------------------
(* Consolidation clusters: lines 249-261 *)

\* the test without `j not in visited`
JoinsVisited(d, seed, j, vis) ==
    j # seed /\ WithinHalfRadius(d[seed][j])

\* the scan taking every unvisited facility within the full service radius
JoinsWithinRadius(d, seed, j, vis) ==
    j # seed /\ j \notin vis /\ WithinRadius(d[seed][j])

\* line 256: j joins the cluster of seed
Joins(d, seed, j, vis) ==
    j # seed /\ j \notin vis /\ WithinHalfRadius(d[seed][j])

\* the scan taking every unvisited facility within R/2 of any member so far
RECURSIVE ScanClusterLinked(_, _, _, _, _)
ScanClusterLinked(d, seed, j, cluster, vis) ==
    IF j > n_facilities THEN [cluster |-> cluster, visited |-> vis]
    ELSE IF j \notin vis
              /\ \E m \in Range(cluster) : WithinHalfRadius(d[m][j])
         THEN ScanClusterLinked(d, seed, j + 1, Append(cluster, j),
                                vis \cup {j})
         ELSE ScanClusterLinked(d, seed, j + 1, cluster, vis)

\* for j in range(len(facilities_df)), from j on: the cluster and the visited set
RECURSIVE ScanCluster(_, _, _, _, _)
ScanCluster(d, seed, j, cluster, vis) ==
    IF j > n_facilities THEN [cluster |-> cluster, visited |-> vis]
    ELSE IF Joins(d, seed, j, vis)
         THEN ScanCluster(d, seed, j + 1, Append(cluster, j), vis \cup {j})
         ELSE ScanCluster(d, seed, j + 1, cluster, vis)

\* the seed left out of the visited set
ClusterOfUnmarkedSeed(d, seed, vis) == ScanCluster(d, seed, 1, << seed >>, vis)

\* a cluster of fewer than 3 members giving its members back
ClusterOfReleasing(d, seed, vis) ==
    LET c == ScanCluster(d, seed, 1, << seed >>, vis \cup {seed})
    IN  IF Len(c.cluster) > 2 THEN c
        ELSE [cluster |-> c.cluster, visited |-> vis]

\* lines 251-258 for an unvisited seed: cluster = [seed]; visited.add(seed); scan
ClusterOf(d, seed, vis) == ScanCluster(d, seed, 1, << seed >>, vis \cup {seed})

\* the test as len(cluster) >= 2
KeptPair(cluster) == Len(cluster) >= 2

\* line 260: if len(cluster) > 2
Kept(cluster) == Len(cluster) > 2

\* one iteration of `for i, facility in high_overlap.iterrows()`
ClusterSeed ==
    /\ pc = "cluster"
    /\ IF i <= Len(high_overlap)
       THEN LET seed == high_overlap[i]
                c == ClusterOf(distances, seed, visited)
            IN  /\ IF seed \notin visited
                   THEN /\ visited' = c.visited
                        /\ last_cluster' = c.cluster
                        /\ started' = Append(started, seed)
                        /\ consolidation_opportunities' =
                              IF Kept(c.cluster)
                              THEN Append(consolidation_opportunities, c.cluster)
                              ELSE consolidation_opportunities
                   ELSE UNCHANGED << visited, last_cluster, started,
                                     consolidation_opportunities >>
                /\ i' = i + 1
                /\ UNCHANGED pc
       ELSE /\ pc' = "print"
            /\ UNCHANGED << i, visited, last_cluster, started,
                            consolidation_opportunities >>
    /\ UNCHANGED << source_rows, main_vars, haversine_vars, data_vars, haversine_calls,
                    isolated_counts >>
    /\ UNCHANGED << rows_read, facilities, distances, overlaps, breakdown,
                    overlap_details, top_redundant, isolated, total_overlaps,
                    redundancy_score, high_overlap, cluster_city,
                    potential_savings, results >>

---------------------------------------------------------------------------
(* The clusters printed: lines 263-273 *)

\* consolidation_opportunities[:5]
Shown == 5

Cities(cluster) == [ k \in 1..Len(cluster) |-> facilities[cluster[k]].city ]

Occurrences(s, v) == Cardinality({ k \in 1..Len(s) : s[k] = v })

\* Series.mode(): the most frequent values, missing ones dropped, sorted
Modes(s) ==
    LET labels == Range(s) \ {NoCity}
    IN  { v \in labels :
            \A w \in labels : Occurrences(s, v) >= Occurrences(s, w) }

\* the most frequent label that comes first among the members
FirstSeenMode(s) ==
    IF Modes(s) = {} THEN Multiple
    ELSE s[Min({ k \in 1..Len(s) : s[k] \in Modes(s) })]

\* the dominant city with ties broken by member order
DominantCityFirstSeen(cluster) == FirstSeenMode(Cities(cluster))

\* line 268: mode()[0] if len(mode()) > 0 else 'Multiple'
DominantCity(cluster) ==
    IF Modes(Cities(cluster)) # {} THEN Min(Modes(Cities(cluster)))
    ELSE Multiple

PrintClusters ==
    /\ pc = "print"
    /\ cluster_city' =
          [ k \in 1..(IF Len(consolidation_opportunities) < Shown
                      THEN Len(consolidation_opportunities) ELSE Shown) |->
              DominantCity(consolidation_opportunities[k]) ]
    /\ pc' = "cost"
    /\ UNCHANGED << source_rows, main_vars, haversine_vars, data_vars, last_cluster,
                    haversine_calls, isolated_counts >>
    /\ UNCHANGED << rows_read, facilities, distances, i, overlaps, breakdown,
                    overlap_details, top_redundant, isolated, total_overlaps,
                    redundancy_score, high_overlap, visited, started,
                    consolidation_opportunities, potential_savings, results >>

---------------------------------------------------------------------------
(* Cost estimate and report: lines 278-318 *)

\* annual operating cost estimates
avg_rhc_cost == 2000000
avg_fqhc_cost == 5000000

\* more overlaps than this makes a clinic redundant
RedundantOver == 3

\* the rows of the report's top_redundant_facilities: head(10)
ReportTop == 10

OfType(t) == Rows({ k \in 1..n_facilities : facilities[k].type = t })

\* a clinic counted as redundant from 3 overlaps on
RedundantFrom(t, ov) ==
    Rows({ k \in 1..n_facilities :
             facilities[k].type = t /\ ov[k] >= RedundantOver })

\* lines 279, 283: clinics of one type with overlaps > 3
Redundant(t, ov) ==
    Rows({ k \in 1..n_facilities :
             facilities[k].type = t /\ ov[k] > RedundantOver })

\* lines 286-287, with 0.3 as 3/10
PotentialSavings(ov) ==
    (Len(Redundant("RHC", ov)) * avg_rhc_cost * 3) \div 10
        + (Len(Redundant("FQHC", ov)) * avg_fqhc_cost * 3) \div 10

\* the report carrying every row of the ranking
HeadAll(s) == s

\* .head(10)
Head10(s) == SubSeq(s, 1, IF Len(s) < ReportTop THEN Len(s) ELSE ReportTop)

Report(savings) ==
    [ summary |->
        [ total_facilities |-> n_facilities,
          hospitals |-> Len(OfType("Hospital")),
          rhcs |-> Len(OfType("RHC")),
          fqhcs |-> Len(OfType("FQHC")),
          redundancy_score |-> redundancy_score,
          isolated_facilities |-> Len(isolated),
          consolidation_clusters |-> Len(consolidation_opportunities),
          estimated_inefficiency |-> savings ],
      top_redundant_facilities |->
        [ k \in 1..Len(Head10(top_redundant)) |->
            [ index |-> top_redundant[k],
              type |-> facilities[top_redundant[k]].type,
              city |-> facilities[top_redundant[k]].city,
              overlaps |-> overlaps[top_redundant[k]] ] ],
      consolidation_opportunities |-> Len(consolidation_opportunities) ]

Save ==
    /\ pc = "cost"
    /\ potential_savings' = PotentialSavings(overlaps)
    /\ results' = Report(PotentialSavings(overlaps))
    /\ pc' = "done"
    /\ UNCHANGED << source_rows, main_vars, haversine_vars, data_vars, last_cluster,
                    haversine_calls, isolated_counts >>
    /\ UNCHANGED << rows_read, facilities, distances, i, overlaps, breakdown,
                    overlap_details, top_redundant, isolated, total_overlaps,
                    redundancy_score, high_overlap, visited, started,
                    consolidation_opportunities, cluster_city >>

---------------------------------------------------------------------------
(* run_full_analysis.main: lines 19-120 *)

\* --service-radius values given on the command line (type=int, default 20)
Radii == {10, 20}

\* lines 21-32: the parsed arguments
Args ==
    [ service_radius : Radii, run_redundancy : BOOLEAN,
      create_maps : BOOLEAN, all : BOOLEAN ]

\* main entered with any arguments and any of the data files in place;
\* analyze_service_redundancy has not been called
InitMain ==
    /\ pc = "idle"
    /\ Fresh
    /\ NoCall
    /\ args \in Args
    /\ files \in SUBSET DataFiles
    /\ main_pc = "check"
    /\ exit_code = NoExit
    /\ steps = << >>
    /\ NoData

\* the check without the test of the FQHC file
MissingFilesButFqhc(fs) == {"hospitals", "rhcs"} \ fs

\* lines 47-53: missing_files
MissingFiles(fs) == DataFiles \ fs

\* lines 55-60
CheckDataFiles ==
    /\ main_pc = "check"
    /\ IF MissingFiles(files) # {}
       THEN /\ exit_code' = 1
            /\ main_pc' = "returned"
       ELSE /\ main_pc' = "redundancy"
            /\ UNCHANGED exit_code
    /\ UNCHANGED << pc, rows_read, facilities, source_rows, analysis_vars,
                    args, files, steps, haversine_vars, data_vars >>

\* lines 63-67: analyze_service_redundancy() is called without arguments
RunRedundancy ==
    /\ main_pc = "redundancy"
    /\ IF args.run_redundancy \/ args.all
       THEN /\ pc' = "hospitals"
            /\ main_pc' = "analysis"
       ELSE /\ main_pc' = "maps"
            /\ UNCHANGED pc
    /\ UNCHANGED << rows_read, facilities, source_rows, analysis_vars,
                    args, files, exit_code, steps, haversine_vars, data_vars >>

\* the call outside any try: an exception of the analysis leaves main
RedundancyRaises ==
    /\ main_pc = "analysis"
    /\ pc \in {"done", "error"}
    /\ IF pc = "done"
       THEN /\ steps' = Append(steps, [step |-> "redundancy", ok |-> TRUE])
            /\ main_pc' = "maps"
            /\ UNCHANGED exit_code
       ELSE /\ steps' = Append(steps, [step |-> "redundancy", ok |-> FALSE])
            /\ main_pc' = "returned"
            /\ exit_code' = 1
    /\ UNCHANGED << pc, rows_read, facilities, source_rows, analysis_vars,
                    args, files, haversine_vars, data_vars >>

\* lines 68-70: the analysis returned, or raised and the exception was caught
RedundancyReturns ==
    /\ main_pc = "analysis"
    /\ pc \in {"done", "error"}
    /\ steps' = Append(steps, [step |-> "redundancy", ok |-> pc = "done"])
    /\ main_pc' = "maps"
    /\ UNCHANGED << pc, rows_read, facilities, source_rows, analysis_vars,
                    args, files, exit_code, haversine_vars, data_vars >>

\* lines 72-80: create_comprehensive_map returns or raises
CreateMaps ==
    /\ main_pc = "maps"
    /\ IF args.create_maps \/ args.all
       THEN \E ok \in BOOLEAN :
               steps' = Append(steps, [step |-> "maps", ok |-> ok])
       ELSE UNCHANGED steps
    /\ main_pc' = "summary"
    /\ UNCHANGED << pc, rows_read, facilities, source_rows, analysis_vars,
                    args, files, exit_code, haversine_vars, data_vars >>

\* lines 87-115: the summary statistics, printed or given up
SummaryStatistics ==
    /\ main_pc = "summary"
    /\ \E ok \in BOOLEAN :
          steps' = Append(steps, [step |-> "summary", ok |-> ok])
    /\ main_pc' = "end"
    /\ UNCHANGED << pc, rows_read, facilities, source_rows, analysis_vars,
                    args, files, exit_code, haversine_vars, data_vars >>

\* line 120
ReturnZero ==
    /\ main_pc = "end"
    /\ exit_code' = 0
    /\ main_pc' = "returned"
    /\ UNCHANGED << pc, rows_read, facilities, source_rows, analysis_vars,
                    args, files, steps, haversine_vars, data_vars >>

---------------------------------------------------------------------------
(* Specifications *)

Analyse ==
    \/ BuildMatrix
    \/ CountOverlaps
    \/ Rank
    \/ Efficiency
    \/ ClusterSeed
    \/ PrintClusters
    \/ Save

\* rows of any quality from the three files
Next ==
    \/ ReadHospital(AnyRows, MaxRows)
    \/ EndHospitals
    \/ ReadRHC(AnyRows, MaxRows)
    \/ EndRHCs
    \/ ReadFQHC(AnyRows, MaxRows)
    \/ EndFQHCs
    \/ Analyse

Spec == Init /\ [][Next]_vars

\* only the clinic file exists, every row well formed, the ends 20.01 miles apart
NextDense ==
    \/ EndHospitals
    \/ ReadRHC(DenseRows, MaxDense)
    \/ EndRHCs
    \/ EndFQHCs
    \/ Analyse

SpecDense == Init /\ [][NextDense]_vars

\* only the clinic file exists, every row well formed, the ends 20 miles apart
NextChain ==
    \/ EndHospitals
    \/ ReadRHC(ChainRows, MaxDense)
    \/ EndRHCs
    \/ EndFQHCs
    \/ Analyse

SpecChain == Init /\ [][NextChain]_vars

\* only the clinic file exists, every row at one place, the city label free
NextCity ==
    \/ EndHospitals
    \/ ReadRHC(CityRows, MaxDense)
    \/ EndRHCs
    \/ EndFQHCs
    \/ Analyse

SpecCity == Init /\ [][NextCity]_vars

\* only the clinic file exists, the clinics at four places
NextSpread ==
    \/ EndHospitals
    \/ ReadRHC(SpreadRows, MaxSpread)
    \/ EndRHCs
    \/ EndFQHCs
    \/ Analyse

SpecSpread == Init /\ [][NextSpread]_vars

\* a few hospitals in two towns, then the clinics of the first town: more
\* facilities than the ranking and the report show
NextMany ==
    \/ ReadHospital(TwoTownRows, MaxRows)
    \/ EndHospitals
    \/ ReadRHC(TownRows, MaxMany)
    \/ EndRHCs
    \/ EndFQHCs
    \/ Analyse

SpecMany == Init /\ [][NextMany]_vars

\* well-formed hospitals, RHCs and FQHCs at 0, 10 and 20.01 miles
NextMixed ==
    \/ ReadHospital(DenseRows, MaxMixed)
    \/ EndHospitals
    \/ ReadRHC(DenseRows, MaxMixed)
    \/ EndRHCs
    \/ ReadFQHC(DenseRows, MaxMixed)
    \/ EndFQHCs
    \/ Analyse

SpecMixed == Init /\ [][NextMixed]_vars

\* rows on a line of three points, on the equator or on a meridian
NextLine ==
    \/ ReadHospital(LineRows, MaxRows)
    \/ EndHospitals
    \/ ReadRHC(LineRows, MaxRows)
    \/ EndRHCs
    \/ ReadFQHC(LineRows, MaxRows)
    \/ EndFQHCs
    \/ Analyse

SpecLine == Init /\ [][NextLine]_vars

\* main, with the analysis it calls reading rows of two towns
NextMain ==
    \/ CheckDataFiles
    \/ RunRedundancy
    \/ ReadHospital(MainRows, MaxRows)
    \/ EndHospitals
    \/ ReadRHC(MainRows, MaxRows)
    \/ EndRHCs
    \/ ReadFQHC(MainRows, MaxRows)
    \/ EndFQHCs
    \/ Analyse
    \/ RedundancyReturns
    \/ CreateMaps
    \/ SummaryStatistics
    \/ ReturnZero

SpecMain == InitMain /\ [][NextMain]_vars

\* haversine_distance on its own
NextDistance == Measure

SpecDistance == InitDistance /\ [][NextDistance]_vars

---------------------------------------------------------------------------
(* Properties *)

Counted == pc \in {"rank", "efficiency", "cluster", "print", "cost", "done"}
Scored == pc \in {"cluster", "print", "cost", "done"}
Printed == pc \in {"cost", "done"}
MatrixBuilt == pc \in {"count"} \/ Counted

Members(cluster) == Range(cluster)

\* the facilities within the service radius of k, from the coordinates
Near(k) ==
    { j \in 1..n_facilities :
        j # k /\ ~isna(Dist(k, j)) /\ Dist(k, j) <= SERVICE_RADIUS * MileScale }

\* C1: no facility index appears in two consolidation clusters, nor twice in
\* one cluster, at any point of the clustering pass and after it.
C1_NoFacilityInTwoClusters ==
    \A a, b \in 1..Len(consolidation_opportunities) :
        \A x \in 1..Len(consolidation_opportunities[a]),
           y \in 1..Len(consolidation_opportunities[b]) :
            consolidation_opportunities[a][x] = consolidation_opportunities[b][y]
                => (a = b /\ x = y)

\* two clusters are reported, and a member of the first lies within the
\* consolidation radius of the seed of the second
C1_Witness ==
    /\ pc = "done"
    /\ Len(consolidation_opportunities) >= 2
    /\ \E x \in Members(consolidation_opportunities[1]) :
          LET d == Dist(consolidation_opportunities[2][1], x)
          IN  2 * d <= SERVICE_RADIUS * MileScale

\* C2: every cluster kept in consolidation_opportunities has at least 3
\* members; a candidate of 1 or 2 members is never reported.
C2_ClustersHaveThreeMembers ==
    \A a \in 1..Len(consolidation_opportunities) :
        Cardinality(Members(consolidation_opportunities[a])) >= 3

\* a seed started a candidate cluster of exactly two members, which was dropped,
\* and another cluster was kept
C2_Witness ==
    /\ pc = "done"
    /\ Len(consolidation_opportunities) >= 1
    /\ \E s \in Range(started) :
          /\ \A a \in 1..Len(consolidation_opportunities) :
                consolidation_opportunities[a][1] # s
          /\ Cardinality({ j \in 1..n_facilities :
                j # s /\ 2 * Dist(s, j) <= SERVICE_RADIUS * MileScale }) = 1

\* C3: the sum of the neighbour counts divided by 2 (total_overlaps) equals the
\* number of unordered pairs {a, b}, a # b, whose matrix distance is <= R.
PairsWithinRadius ==
    { p \in (1..n_facilities) \X (1..n_facilities) :
        /\ p[1] < p[2]
        /\ ~isna(distances[p[1]][p[2]])
        /\ distances[p[1]][p[2]] <= SERVICE_RADIUS * MileScale }

C3_HalfSumIsPairCount ==
    Scored =>
        /\ total_overlaps.den = 2
        /\ total_overlaps.num = SumSeq(overlaps)
        /\ total_overlaps.num = total_overlaps.den * Cardinality(PairsWithinRadius)

\* some pairs are within the radius and some are not
C3_Witness ==
    /\ Scored
    /\ Cardinality(PairsWithinRadius) >= 3
    /\ \E a, b \in 1..n_facilities :
          a < b /\ distances[a][b] > SERVICE_RADIUS * MileScale

\* C4: once the pairwise loop has run, the matrix is N x N, its diagonal is 0
\* and distances[a][b] is the value of distances[b][a] (a missing distance is
\* mirrored as a missing distance).
C4_MatrixSymmetricZeroDiagonal ==
    MatrixBuilt =>
        /\ DOMAIN distances = 1..n_facilities
        /\ \A a \in 1..n_facilities :
              /\ DOMAIN distances[a] = 1..n_facilities
              /\ distances[a][a] = 0
              /\ \A b \in 1..n_facilities :
                    /\ distances[a][b] = distances[b][a]
                    /\ a # b => distances[a][b] = Dist(a, b)

\* three facilities, with a positive distance and a missing one in the matrix
C4_Witness ==
    /\ MatrixBuilt
    /\ n_facilities = 3
    /\ \E a, b \in 1..n_facilities :
          a < b /\ distances[a][b] > 0 /\ ~isna(distances[a][b])
    /\ \E a, b \in 1..n_facilities : a < b /\ isna(distances[a][b])

\* C5: the neighbour count of every facility is the number of other facilities
\* at a distance <= R from it, the threshold included: two facilities exactly R
\* apart count each other, two facilities R + 0.01 apart do not.
C5_NeighborCountInclusive ==
    Counted =>
        \A k \in 1..n_facilities : overlaps[k] = Cardinality(Near(k))

\* a facility with one other exactly R away, which it counts and which counts
\* it, and a third R + 0.01 away, which it does not count
C5_Witness ==
    /\ Counted
    /\ n_facilities = 3
    /\ \E a, b, c \in 1..n_facilities :
          /\ Dist(a, b) = SERVICE_RADIUS * MileScale
          /\ Dist(a, c) = SERVICE_RADIUS * MileScale + MileScale \div 100
          /\ overlaps[a] = 1
          /\ b \in Near(a) /\ a \in Near(b) /\ c \notin Near(a)

\* C6: a facility with no other facility within R has neighbour count 0, is in
\* the isolated list, and is never in a cluster: it is no seed, it is never
\* visited, it is in no reported cluster.
C6_IsolatedNeverClustered ==
    \A k \in 1..n_facilities :
        Near(k) = {} =>
            /\ Counted => overlaps[k] = 0
            /\ Scored => k \in Range(isolated)
            /\ k \notin visited
            /\ k \notin Range(started)
            /\ \A a \in 1..Len(consolidation_opportunities) :
                  k \notin Members(consolidation_opportunities[a])

\* an isolated facility next to a reported cluster
C6_Witness ==
    /\ pc = "done"
    /\ Len(consolidation_opportunities) >= 1
    /\ \E k \in 1..n_facilities :
          Near(k) = {} /\ overlaps[k] = 0 /\ k \in Range(isolated)

NonIncreasing(s) ==
    \A a, b \in 1..Len(s) : a < b => overlaps[s[a]] >= overlaps[s[b]]

Increasing(s) == \A a, b \in 1..Len(s) : a < b => s[a] < s[b]

\* C7 as stated: the seeds are the facilities with neighbour count >= 5 and
\* they are visited, and start their clusters, in descending order of
\* neighbour count.
C7_SeedsInRankedOrder ==
    Scored =>
        /\ Range(high_overlap) = { k \in 1..n_facilities : overlaps[k] >= 5 }
        /\ NonIncreasing(high_overlap)
        /\ NonIncreasing(started)

\* C7 as amended: the seeds are the facilities with neighbour count >= 5 and
\* they are visited, and start their clusters, in input (index) order; the
\* seeds that started a cluster are among those already visited.
C7_SeedsInInputOrder ==
    Scored =>
        /\ Range(high_overlap) = { k \in 1..n_facilities : overlaps[k] >= 5 }
        /\ Increasing(high_overlap)
        /\ Increasing(started)
        /\ \A a \in 1..Len(started) :
              \E b \in 1..Len(high_overlap) :
                  high_overlap[b] = started[a] /\ (pc = "cluster" => b < i)

\* two seeds started clusters, the first with the smaller neighbour count
C7_Witness ==
    /\ pc = "done"
    /\ \E a, b \in 1..Len(started) :
          a < b /\ overlaps[started[a]] < overlaps[started[b]]

\* C8 as stated: the city of each reported cluster is its most frequent label,
\* a tie going to the label met first among the members.
C8_DominantCityFirstEncountered ==
    Printed =>
        \A k \in 1..Len(consolidation_opportunities) :
            /\ k \in DOMAIN cluster_city
            /\ cluster_city[k] =
                  FirstSeenMode(Cities(consolidation_opportunities[k]))

\* C8 as amended: the city of each of the first five clusters is its most
\* frequent label, missing labels apart; a tie goes to the label that sorts
\* first; with no label at all it is 'Multiple'.  Later clusters get no city.
C8_DominantCitySmallestMode ==
    Printed =>
        /\ DOMAIN cluster_city =
              { k \in 1..Len(consolidation_opportunities) : k <= 5 }
        /\ \A k \in DOMAIN cluster_city :
              LET s == Cities(consolidation_opportunities[k])
                  c == cluster_city[k]
                  labels == Range(s) \ {NoCity}
              IN  IF labels = {} THEN c = Multiple
                  ELSE /\ c \in labels
                       /\ \A w \in labels \ {c} :
                             \/ Occurrences(s, c) > Occurrences(s, w)
                             \/ Occurrences(s, c) = Occurrences(s, w) /\ c < w

\* a cluster whose two labels tie and whose first member carries the label
\* that sorts last
C8_Witness ==
    /\ Printed
    /\ \E k \in DOMAIN cluster_city :
          LET s == Cities(consolidation_opportunities[k])
          IN  /\ s[1] = 2
              /\ Occurrences(s, 1) = Occurrences(s, 2)
              /\ cluster_city[k] = 1

\* C9: every facility that enters the analysis has a finite latitude and
\* longitude and is not at (0, 0).
C9_FacilitiesHaveValidLocation ==
    \A k \in 1..n_facilities :
        /\ ~isna(facilities[k].lat)
        /\ ~isna(facilities[k].lon)
        /\ ~(facilities[k].lat = 0 /\ facilities[k].lon = 0)

Loaded == pc \notin {"hospitals", "rhcs", "fqhcs"}

\* C10: with fewer than 2 facilities the analysis raises no error, and its
\* result has every neighbour count zero, no cluster and a defined score.
C10_DegenerateInputNoError ==
    (Loaded /\ n_facilities < 2) =>
        /\ pc # "error"
        /\ pc = "done" =>
              /\ \A k \in 1..n_facilities : overlaps[k] = 0
              /\ consolidation_opportunities = << >>
              /\ redundancy_score.den # 0

\* C11: the redundancy score is (the sum of all neighbour counts / 2) divided
\* by the number of facilities, and it is exactly 0 when no two facilities are
\* within the service radius of each other.
C11_ScoreIsHalfSumOverCount ==
    Scored =>
        /\ redundancy_score.den # 0
        /\ redundancy_score.num * 2 * n_facilities
              = SumSeq(overlaps) * redundancy_score.den
        /\ (\A k \in 1..n_facilities : Near(k) = {}) => redundancy_score.num = 0

\* a scored set of two facilities 20.01 miles apart
C11_Witness ==
    /\ Scored
    /\ n_facilities >= 2
    /\ \A k \in 1..n_facilities : Near(k) = {}
    /\ redundancy_score.num = 0

Ranked == pc \in {"efficiency", "cluster", "print", "cost", "done"}

\* facility x is ranked before facility y: more neighbours, or as many and an
\* earlier row
RankedBefore(x, y) ==
    overlaps[x] > overlaps[y] \/ (overlaps[x] = overlaps[y] /\ x < y)

\* C13: the ranking lists facilities by descending neighbour count, equal
\* counts in their original order, and the highest-redundancy list is its
\* first 15 entries, or all of them when there are fewer than 15 facilities.
C13_TopFifteenStableDescending ==
    Ranked =>
        /\ Len(top_redundant) = IF n_facilities < 15 THEN n_facilities ELSE 15
        /\ Range(top_redundant) \subseteq 1..n_facilities
        /\ \A a, b \in 1..Len(top_redundant) :
              a < b => RankedBefore(top_redundant[a], top_redundant[b])
        /\ \A k \in (1..n_facilities) \ Range(top_redundant) :
              \A a \in 1..Len(top_redundant) :
                  RankedBefore(top_redundant[a], k)

\* more than 15 facilities: a hospital of the far town is the first row and
\* is left out, and the last clinic, tied with the 15 listed, is left out too
C13_Witness ==
    /\ Ranked
    /\ n_facilities > 15
    /\ Len(top_redundant) = 15
    /\ 1 \notin Range(top_redundant)
    /\ n_facilities \notin Range(top_redundant)
    /\ overlaps[n_facilities] = overlaps[top_redundant[15]]

\* C14 as stated: the report holds the summary and the ranked highest-
\* redundancy facilities, as many as the list shown (15), each with its
\* neighbour breakdown by category.
C14_ReportTopKWithBreakdown ==
    pc = "done" =>
        /\ Len(results.top_redundant_facilities) = Len(top_redundant)
        /\ \A k \in 1..Len(results.top_redundant_facilities) :
              LET e == results.top_redundant_facilities[k]
              IN  /\ e.index = top_redundant[k]
                  /\ "breakdown" \in DOMAIN e
                  /\ e.breakdown = breakdown[top_redundant[k]]

\* C14: the report holds the counts per category, the score, the isolated
\* count, the cluster count and the estimated inefficiency, and the first 10
\* facilities of the ranking, each with its type, city and neighbour count and
\* no breakdown by category.
C14_ReportTopTenWithoutBreakdown ==
    pc = "done" =>
        /\ results.summary.total_facilities = n_facilities
        /\ results.summary.hospitals
              = Cardinality({ k \in 1..n_facilities : facilities[k].type = "Hospital" })
        /\ results.summary.rhcs
              = Cardinality({ k \in 1..n_facilities : facilities[k].type = "RHC" })
        /\ results.summary.fqhcs
              = Cardinality({ k \in 1..n_facilities : facilities[k].type = "FQHC" })
        /\ results.summary.redundancy_score = redundancy_score
        /\ results.summary.isolated_facilities
              = Cardinality({ k \in 1..n_facilities : overlaps[k] = 0 })
        /\ results.summary.consolidation_clusters
              = Len(consolidation_opportunities)
        /\ results.summary.estimated_inefficiency = potential_savings
        /\ Len(results.top_redundant_facilities)
              = IF Len(top_redundant) < 10 THEN Len(top_redundant) ELSE 10
        /\ \A k \in 1..Len(results.top_redundant_facilities) :
              LET e == results.top_redundant_facilities[k]
              IN  /\ DOMAIN e = {"index", "type", "city", "overlaps"}
                  /\ e.index = top_redundant[k]
                  /\ e.type = facilities[e.index].type
                  /\ e.city = facilities[e.index].city
                  /\ e.overlaps = overlaps[e.index]

\* 15 facilities are ranked and 10 of them are in the report
C14_Witness ==
    /\ pc = "done"
    /\ Len(top_redundant) = 15
    /\ Len(results.top_redundant_facilities) = 10
    /\ results.summary.hospitals > 0
    /\ results.summary.rhcs > 0

\* the facilities of type t with more than 3 neighbours
OverThree(t) ==
    { k \in 1..n_facilities : facilities[k].type = t /\ overlaps[k] > 3 }

\* C15: the estimated inefficiency is 0.3 x 2,000,000 for every RHC with more
\* than 3 neighbours plus 0.3 x 5,000,000 for every FQHC with more than 3; a
\* clinic with exactly 3 neighbours and a hospital contribute nothing.
C15_InefficiencyOverThreeNeighbors ==
    pc = "done" =>
        /\ 10 * potential_savings
              = 3 * (2000000 * Cardinality(OverThree("RHC"))
                       + 5000000 * Cardinality(OverThree("FQHC")))
        /\ results.summary.estimated_inefficiency = potential_savings

\* a hospital and two FQHCs with 4 neighbours, RHCs with exactly 3: the
\* estimate is that of the two FQHCs
C15_Witness ==
    /\ pc = "done"
    /\ \E k \in 1..n_facilities :
          facilities[k].type = "Hospital" /\ overlaps[k] > 3
    /\ \E k \in 1..n_facilities :
          facilities[k].type = "RHC" /\ overlaps[k] = 3
    /\ Cardinality(OverThree("FQHC")) = 2
    /\ potential_savings = 3000000

\* the coordinates of the facilities, in order
FacilityCoordinates == [ k \in 1..n_facilities |-> Coordinates(facilities[k]) ]

\* the rows of the three files have been iterated
SourcesRead == pc \in {"fqhcs", "error"}

\* C16 as stated: of three facilities at (0, 0), (0, 0.1) and (0, 5.0) the
\* first two have a neighbour count of at least 1 and the third has 0.
C16_EquatorLineCounted ==
    (SourcesRead /\ source_rows = EquatorLine) =>
        /\ pc # "error"
        /\ FacilityCoordinates = EquatorLine
        /\ Near(1) # {}
        /\ Near(2) # {}
        /\ Near(3) = {}

\* C16: no row with latitude 0 or longitude 0 becomes a facility, so the three
\* rows on the equator leave no facility; the same line at 38.0, 38.1 and 43.0
\* degrees north on one meridian gives the neighbour counts 1, 1 and 0, and
\* the third facility alone is isolated.
C16_LineOffTheAxesCounted ==
    /\ \A k \in 1..n_facilities :
          facilities[k].lat # 0 /\ facilities[k].lon # 0
    /\ (SourcesRead /\ source_rows = EquatorLine) => n_facilities = 0
    /\ (Counted /\ FacilityCoordinates = MeridianLine) =>
          overlaps = << 1, 1, 0 >>
    /\ (Scored /\ FacilityCoordinates = MeridianLine) => isolated = << 3 >>

\* the line on the meridian analysed to the end
C16_Witness ==
    /\ pc = "done"
    /\ FacilityCoordinates = MeridianLine
    /\ overlaps = << 1, 1, 0 >>
    /\ isolated = << 3 >>
    /\ distances[1][2] < SERVICE_RADIUS * MileScale
    /\ distances[2][3] > SERVICE_RADIUS * MileScale

C19_RadiusFromArguments ==
    (main_pc # "none" /\ Counted) =>
        /\ \A k \in 1..n_facilities :
              overlaps[k] = Cardinality({ j \in 1..n_facilities :
                  j # k /\ Dist(k, j) <= args.service_radius * MileScale })
        /\ \A c \in 1..Len(consolidation_opportunities) :
              \A m \in 2..Len(consolidation_opportunities[c]) :
                  2 * Dist(consolidation_opportunities[c][1],
                           consolidation_opportunities[c][m])
                      <= args.service_radius * MileScale

\* C20: main returns 1 when any of the three data files is missing, and then
\* no redundancy, map or summary step has run; it returns 0 only when all
\* three files exist.
C20_MissingFileReturnsOne ==
    /\ main_pc = "returned" =>
          /\ exit_code \in {0, 1}
          /\ exit_code = 1 <=> files # DataFiles
          /\ exit_code = 0 <=> files = DataFiles
    /\ (main_pc # "none" /\ files # DataFiles) =>
          /\ steps = << >>
          /\ pc = "idle"
          /\ main_pc \in {"check", "returned"}

\* --all given, the FQHC file alone missing: 1 returned and nothing run
C20_Witness ==
    /\ main_pc = "returned"
    /\ args.all
    /\ files = DataFiles \ {"fqhcs"}
    /\ exit_code = 1
    /\ steps = << >>
    /\ pc = "idle"

\* the facilities the scan from `seed` takes: not the seed, not yet visited,
\* at most half the service radius from the seed
TakenBy(seed) ==
    { j \in 1..n_facilities :
        /\ j # seed
        /\ j \notin visited
        /\ ~isna(Dist(seed, j))
        /\ 2 * Dist(seed, j) <= SERVICE_RADIUS * MileScale }

\* C21: a seed already visited starts no cluster; an unvisited seed starts a
\* cluster holding itself and exactly the facilities j, other than the seed,
\* that are unvisited and within R/2 of the seed, in row order, and the seed
\* and every member are in the visited set after the scan.
C21_ClusterJoinRule ==
    [][ (pc = "cluster" /\ i <= Len(high_overlap)) =>
            LET seed == high_overlap[i]
            IN  IF seed \in visited
                THEN UNCHANGED << visited, last_cluster, started,
                                  consolidation_opportunities >>
                ELSE /\ last_cluster' = << seed >> \o Rows(TakenBy(seed))
                     /\ visited' = visited \cup {seed} \cup TakenBy(seed)
                     /\ started' = Append(started, seed) ]_vars

\* a cluster was started after a seed was passed over as visited, and a
\* facility within R/2 of the new seed was left out of it as visited
C21_Witness ==
    /\ pc = "cluster"
    /\ Len(last_cluster) >= 3
    /\ \E k \in 1..(i - 1) :
          /\ high_overlap[k] \notin Range(started)
          /\ high_overlap[k] < last_cluster[1]
    /\ \E j \in visited \ Range(last_cluster) :
          2 * Dist(last_cluster[1], j) <= SERVICE_RADIUS * MileScale

\* two facilities within half the service radius of each other
HalfLinked(a, b) ==
    a # b /\ ~isna(Dist(a, b)) /\ 2 * Dist(a, b) <= SERVICE_RADIUS * MileScale

\* the facilities linked to a member of S, step by step
RECURSIVE Reach(_)
Reach(S) ==
    LET T == S \cup { j \in 1..n_facilities : \E a \in S : HalfLinked(a, j) }
    IN  IF T = S THEN S ELSE Reach(T)

\* the connected component of a in the graph of the links
Component(a) == Reach({a})

\* the greedy pass over the facilities taken in the row order `order`
RECURSIVE GreedyScan(_, _, _, _, _)
GreedyScan(order, seed, k, members, vis) ==
    IF k > Len(order) THEN [members |-> members, vis |-> vis]
    ELSE IF order[k] \notin vis /\ HalfLinked(seed, order[k])
         THEN GreedyScan(order, seed, k + 1, Append(members, order[k]),
                         vis \cup {order[k]})
         ELSE GreedyScan(order, seed, k + 1, members, vis)

RECURSIVE GreedyPass(_, _, _, _)
GreedyPass(order, k, vis, out) ==
    IF k > Len(order) THEN out
    ELSE IF overlaps[order[k]] < 5 \/ order[k] \in vis
         THEN GreedyPass(order, k + 1, vis, out)
         ELSE LET c == GreedyScan(order, order[k], 1, << order[k] >>,
                                  vis \cup {order[k]})
              IN  GreedyPass(order, k + 1, c.vis,
                             IF Len(c.members) >= 3 THEN Append(out, c.members)
                             ELSE out)

GreedyClusters(order) == GreedyPass(order, 1, {}, << >>)

RowOrder == [ k \in 1..n_facilities |-> k ]
ReverseOrder == [ k \in 1..n_facilities |-> n_facilities + 1 - k ]

\* the member sets of a list of clusters
ClusterSets(cs) == { Range(cs[k]) : k \in 1..Len(cs) }

\* C22: the reported clusters are those of the greedy pass over the rows in
\* input order, each inside one connected component of the `distance <= R/2`
\* graph; they depend on that order and need not be the components (the
\* witness is a facility set for which the reverse order gives other clusters
\* and the reported cluster is smaller than its component).
C22_ClustersAreGreedyInRowOrder ==
    Printed =>
        /\ consolidation_opportunities = GreedyClusters(RowOrder)
        /\ \A c \in 1..Len(consolidation_opportunities) :
              Range(consolidation_opportunities[c])
                  \subseteq Component(consolidation_opportunities[c][1])

\* the rows in reverse order give other clusters, and a reported cluster is
\* not the connected component of its seed
C22_Witness ==
    /\ Printed
    /\ consolidation_opportunities # << >>
    /\ ClusterSets(GreedyClusters(ReverseOrder))
          # ClusterSets(consolidation_opportunities)
    /\ \E c \in 1..Len(consolidation_opportunities) :
          Range(consolidation_opportunities[c])
              # Component(consolidation_opportunities[c][1])

\* the rows whose inner loop has run
RowsBuilt == IF pc = "matrix" THEN i - 1 ELSE n_facilities

\* C23: haversine_distance is called exactly once for each pair of rows
\* a < b, never for a = b or a > b, N(N-1)/2 times in all, and the result is
\* in both distances[a][b] and distances[b][a].
C23_OneCallPerPair ==
    (pc = "matrix" \/ MatrixBuilt) =>
        /\ \A c \in 1..Len(haversine_calls) :
              /\ haversine_calls[c][1] < haversine_calls[c][2]
              /\ haversine_calls[c][1] \in 1..RowsBuilt
              /\ haversine_calls[c][2] \in 1..n_facilities
        /\ \A a \in 1..RowsBuilt : \A b \in (a + 1)..n_facilities :
              /\ Cardinality({ c \in 1..Len(haversine_calls) :
                                 haversine_calls[c] = << a, b >> }) = 1
              /\ distances[a][b] = Dist(a, b)
              /\ distances[b][a] = Dist(a, b)
        /\ MatrixBuilt =>
              2 * Len(haversine_calls) = n_facilities * (n_facilities - 1)

\* five facilities, ten calls
C23_Witness ==
    /\ MatrixBuilt
    /\ n_facilities = 5
    /\ Len(haversine_calls) = 10
    /\ haversine_calls[10] = << 4, 5 >>

Clustering == pc \in {"cluster", "print", "cost", "done"}

\* C24: every member of a reported cluster is within R/2 of the cluster's
\* first member, its seed, so any two members are within R of each other, and
\* the seed has at least 5 neighbours; nothing more is required of the other
\* members (the witness has one with fewer than 5 neighbours and two that are
\* more than R/2 apart).
C24_MembersNearSeed ==
    Clustering =>
        \A c \in 1..Len(consolidation_opportunities) :
            LET members == consolidation_opportunities[c]
            IN  /\ overlaps[members[1]] >= 5
                /\ \A m \in 2..Len(members) :
                      2 * Dist(members[1], members[m])
                          <= SERVICE_RADIUS * MileScale
                /\ \A a, b \in Range(members) :
                      Dist(a, b) <= SERVICE_RADIUS * MileScale

\* a cluster with a member of fewer than 5 neighbours and two members 20
\* miles apart
C24_Witness ==
    /\ Clustering
    /\ \E c \in 1..Len(consolidation_opportunities) :
          LET members == consolidation_opportunities[c]
          IN  /\ \E m \in 2..Len(members) : overlaps[members[m]] < 5
              /\ \E a, b \in Range(members) :
                    2 * Dist(a, b) > SERVICE_RADIUS * MileScale

\* the facilities of the reported clusters
Reported ==
    UNION { Range(consolidation_opportunities[c]) :
              c \in 1..Len(consolidation_opportunities) }

\* C25: the visited set only grows; a step that starts a cluster starts it
\* from an unvisited seed, takes unvisited facilities only and leaves them
\* all visited, whether the cluster is kept or dropped, so the members of a
\* dropped cluster join no later cluster and start none.
C25_VisitedOnlyGrows ==
    [][ /\ visited \subseteq visited'
        /\ started' # started =>
              /\ started' = Append(started, last_cluster'[1])
              /\ Range(last_cluster') \cap visited = {}
              /\ Range(last_cluster') \subseteq visited'
        /\ Reported' \subseteq visited' ]_vars

\* a cluster of two was dropped; its second member, itself of 5 neighbours
\* or more and within R/2 of the seed of a cluster reported later, is in no
\* cluster and started none
C25_Witness ==
    /\ pc = "print"
    /\ \E j \in Range(high_overlap) \cap visited :
          /\ j \notin Reported
          /\ j \notin Range(started)
          /\ \E c \in 1..Len(consolidation_opportunities) :
                /\ consolidation_opportunities[c][1] > j
                /\ 2 * Dist(j, consolidation_opportunities[c][1])
                      <= SERVICE_RADIUS * MileScale

\* the number of neighbours of type t recorded for facility k
BreakdownOf(k, t) == IF t \in DOMAIN breakdown[k] THEN breakdown[k][t] ELSE 0

\* C26: the breakdown of a facility by category counts its neighbours of each
\* category and sums to its neighbour count; the facilities with count 0 are
\* the isolated list, those with a count above 0 are the ones recorded in
\* overlap_details, and the isolated counts of hospitals, RHCs and FQHCs sum
\* to the number of isolated facilities.
C26_BreakdownAndIsolatedPartition ==
    /\ Counted =>
          /\ \A k \in 1..n_facilities :
                /\ \A t \in {"Hospital", "RHC", "FQHC"} :
                      BreakdownOf(k, t)
                          = Cardinality({ j \in Near(k) : facilities[j].type = t })
                /\ BreakdownOf(k, "Hospital") + BreakdownOf(k, "RHC")
                      + BreakdownOf(k, "FQHC") = overlaps[k]
          /\ Range(overlap_details) = { k \in 1..n_facilities : overlaps[k] > 0 }
          /\ Len(overlap_details) = Cardinality(Range(overlap_details))
    /\ Scored =>
          /\ Range(isolated) = { k \in 1..n_facilities : overlaps[k] = 0 }
          /\ Len(isolated) = Cardinality(Range(isolated))
          /\ Range(isolated) \cap Range(overlap_details) = {}
          /\ Range(isolated) \cup Range(overlap_details) = 1..n_facilities
          /\ isolated_counts["Hospital"] + isolated_counts["RHC"]
                + isolated_counts["FQHC"] = Len(isolated)

\* an isolated hospital, and a facility with neighbours of two categories
C26_Witness ==
    /\ Scored
    /\ isolated_counts["Hospital"] = 1
    /\ Len(isolated) = 1
    /\ \E k \in 1..n_facilities :
          BreakdownOf(k, "RHC") >= 1 /\ BreakdownOf(k, "FQHC") >= 2

\* the step named `name` is among the steps from position k on
RanFrom(k, name) == \E m \in k..Len(steps) : steps[m].step = name

\* C27: with the three data files present, when the redundancy analysis
\* raises, main goes on: once it has returned, the map step has run if it was
\* asked for, the summary step has run, and the value returned is 0.
C27_AnalysisErrorDoesNotStopMain ==
    \A k \in 1..Len(steps) :
        (steps[k].step = "redundancy" /\ ~steps[k].ok) =>
            /\ files = DataFiles
            /\ main_pc \in {"maps", "summary", "end", "returned"}
            /\ main_pc = "returned" =>
                  /\ exit_code = 0
                  /\ RanFrom(k + 1, "summary")
                  /\ (args.create_maps \/ args.all) => RanFrom(k + 1, "maps")

\* the analysis stopped with its error, the map and the summary were made
\* all the same and main returned 0
C27_Witness ==
    /\ main_pc = "returned"
    /\ pc = "error"
    /\ steps[1] = [step |-> "redundancy", ok |-> FALSE]
    /\ Len(steps) = 3
    /\ steps[2].step = "maps"
    /\ steps[3].step = "summary"
    /\ exit_code = 0

---------------------------------------------------------------------------
(* data_processing/fix_all_duplicate_coordinates.py                        *)
(* Coordinates of this script are in 1/10000 degree, the precision of its  *)
(* table.  A row carries its three key columns, its two coordinate columns *)
(* and `rest`, the value of all its other columns.                         *)

\* rows of the RHC file
MaxFixRows == 3

\* lines 12-106: key (ORGANIZATION NAME, ADDRESS LINE 1, CITY) -> (lat, lon)
COORDINATE_OFFSETS ==
  LET entries == {
    << <<"PEMISCOT COUNTY MEMORIAL HOSPITAL", "213 S WALNUT ST", "STEELE">>,
       <<360838, -898293>> >>,
    << <<"MCPHERSON MEDICAL & DIAGNOSTIC LLC", "216 W MAIN ST", "STEELE">>,
       <<360841, -898298>> >>,
    << <<"PEMISCOT COUNTY MEMORIAL HOSPITAL", "106 W 12TH STREET", "CARUTHERSVILLE">>,
       <<361915, -896550>> >>,
    << <<"PEMISCOT COUNTY MEMORIAL HOSPITAL", "1502 WARD AVE", "CARUTHERSVILLE">>,
       <<361935, -896575>> >>,
    << <<"WT REGIONAL MEDICAL ASSOCIATES", "108 W 15TH ST", "CARUTHERSVILLE">>,
       <<361895, -896545>> >>,
    << <<"SCHEIDLER RURAL HEALTH CLINIC, LLC", "301 SOUTH BYP", "KENNETT">>,
       <<362340, -900560>> >>,
    << <<"FCC MEDICAL CLINICS LLC", "900 STATE ROUTE VV", "KENNETT">>,
       <<362385, -900485>> >>,
    << <<"MCPHERSON MEDICAL & DIAGNOSTIC LLC", "304 TEACO RD", "KENNETT">>,
       <<362365, -900515>> >>,
    << <<"PEMISCOT COUNTY MEMORIAL HOSPITAL", "946 E REED ST", "HAYTI">>,
       <<362370, -897520>> >>,
    << <<"PEMISCOT COUNTY MEMORIAL HOSPITAL", "907 E REED ST", "HAYTI">>,
       <<362368, -897535>> >>,
    << <<"MCPHERSON MEDICAL & DIAGNOSTIC LLC", "223 S 3RD ST", "HAYTI">>,
       <<362355, -897555>> >>,
    << <<"LORNA A TURNAGE", "203 E 3RD ST", "PORTAGEVILLE">>,
       <<364292, -897013>> >>,
    << <<"MISSOURI DELTA MEDICAL CENTER", "204 E 3RD ST", "PORTAGEVILLE">>,
       <<364294, -897011>> >>,
    << <<"POPLAR BLUFF REGIONAL MEDICAL CENTER LLC", "806 N DOUGLASS ST", "MALDEN">>,
       <<365590, -899665>> >>,
    << <<"SOUTHEAST HEALTH CENTER OF STODDARD COUNTY LLC", "500 N DOUGLASS ST", "MALDEN">>,
       <<365565, -899668>> >>,
    << <<"MISSOURI DELTA MEDICAL CENTER", "412 W BROADWATER RD", "MALDEN">>,
       <<365550, -899710>> >>,
    << <<"MISSOURI DELTA MEDICAL CENTER", "615 MAIN ST", "NEW MADRID">>,
       <<365748, -896781>> >>,
    << <<"SOUTHEAST HEALTH CENTER OF STODDARD COUNTY LLC", "800 US HIGHWAY 61", "NEW MADRID">>,
       <<365752, -896758>> >>,
    << <<"MISSOURI DELTA MEDICAL CENTER", "1403 E MARSHALL ST", "CHARLESTON">>,
       <<369220, -893475>> >>,
    << <<"SAINT FRANCIS MEDICAL CENTER", "112 W COMMERCIAL ST", "CHARLESTON">>,
       <<369195, -893525>> >>,
    << <<"POPLAR BLUFF REGIONAL MEDICAL CENTER LLC", "130 E HARBIN AVE", "PUXICO">>,
       <<369485, -901598>> >>,
    << <<"WOODS MEDICAL CLINIC, LLC", "250 SOUTH HICKMAN", "PUXICO">>,
       <<369475, -901605>> >>,
    << <<"CHERYL G WILLIAMS DO PC", "1011 S EAST ST", "MOUNT VERNON">>,
       <<371025, -938190>> >>,
    << <<"COX-MONETT HOSPITAL INC", "10763 HIGHWAY 39", "MOUNT VERNON">>,
       <<371050, -938175>> >>,
    << <<"SALEM MEMORIAL HOSPITAL", "35629 HIGHWAY 72 BLDG 3", "SALEM">>,
       <<376245, -915380>> >>,
    << <<"MERCY CLINIC SPRINGFIELD COMMUNITIES", "404W ROLLA RD", "SALEM">>,
       <<376205, -915365>> >>,
    << <<"PHELPS COUNTY REGIONAL MEDICAL CENTER", "1415 W SCENIC RIVERS BLVD", "SALEM">>,
       <<376165, -915410>> >>,
    << <<"MERCY CLINIC SPRINGFIELD COMMUNITIES", "309E HOSPITAL RD", "EL DORADO SPRINGS">>,
       <<378775, -940215>> >>,
    << <<"CEDAR COUNTY MEMORIAL HOSPITAL", "1317 S STATE HIGHWAY 32", "EL DORADO SPRINGS">>,
       <<378735, -940235>> >>,
    << <<"CITIZENS MEMORIAL HEALTHCARE", "322 E HOSPITAL RD", "EL DORADO SPRINGS">>,
       <<378770, -940205>> >>,
    << <<"MERCY CLINIC SPRINGFIELD COMMUNITIES", "518 PINE", "STEELVILLE">>,
       <<379630, -913550>> >>,
    << <<"MISSOURI BAPTIST HOSPITAL OF SULLIVAN", "510 W MAIN ST", "STEELVILLE">>,
       <<379635, -913545>> >>,
    << <<"MERCY CLINIC SPRINGFIELD COMMUNITIES", "107W ELDON ST", "SAINT JAMES">>,
       <<379990, -916110>> >>,
    << <<"PHELPS COUNTY REGIONAL MEDICAL CENTER", "1000 N JEFFERSON ST", "SAINT JAMES">>,
       <<380025, -916105>> >>,
    << <<"MISSOURI BAPTIST HOSPITAL OF SULLIVAN", "102 OZARK DR", "CUBA">>,
       <<380620, -914045>> >>,
    << <<"MERCY CLINIC EAST COMMUNITIES", "301 THERESA STREET", "CUBA">>,
       <<380615, -914035>> >>,
    << <<"NEVADA CITY HOSPITAL", "320 N 14TH ST", "RICH HILL">>,
       <<380975, -943610>> >>,
    << <<"BATES COUNTY MEMORIAL HOSPITAL", "225 N 14TH ST", "RICH HILL">>,
       <<380960, -943612>> >>,
    << <<"MISSOURI BAPTIST HOSPITAL OF SULLIVAN", "240 COLLEGE ST", "BOURBON">>,
       <<381465, -912540>> >>,
    << <<"MERCY CLINIC EAST COMMUNITIES", "125 NORTH OLD HIGHWAY 66", "BOURBON">>,
       <<381460, -912530>> >>,
    << <<"HERMANN AREA HOSPITAL DISTRICT", "504 NORTH STURGEON STREET", "MONTGOMERY CITY">>,
       <<389785, -915050>> >>,
    << <<"HEALTHY CHOICE", "111 E FIRST STREET", "MONTGOMERY CITY">>,
       <<389770, -915045>> >>,
    << <<"MIDWEST DIVISION - LRHC LLC", "3401 PINE ST", "HIGGINSVILLE">>,
       <<390765, -937170>> >>,
    << <<"WESTERN MISSOURI MEDICAL CENTER", "1200 W 22ND ST", "HIGGINSVILLE">>,
       <<390740, -937180>> >>,
    << <<"JOHN FITZGIBBON MEMORIAL HOSPITAL INC.", "815 E BROADWAY ST", "BRUNSWICK">>,
       <<394235, -931305>> >>,
    << <<"JEFFERSON MEDICAL GROUP", "807 E BROADWAY ST", "BRUNSWICK">>,
       <<394232, -931302>> >>,
    << <<"CAMERON REGIONAL MEDICAL CENTER INC", "214 N MAIN ST", "PLATTSBURG">>,
       <<395650, -944620>> >>,
    << <<"NEW LIBERTY HOSPITAL CORPORATION", "400 W CLAY AVE", "PLATTSBURG">>,
       <<395645, -944640>> >>,
    << <<"CAMERON REGIONAL MEDICAL CENTER INC", "12050 12TH ST", "EAGLEVILLE">>,
       <<404695, -939870>> >>,
    << <<"HARRISON COUNTY COMMUNITY HOSPITAL DISTRICT", "16027 LOCUST ST", "EAGLEVILLE">>,
       <<404688, -939875>> >> }
  IN  [ key \in { e[1] : e \in entries } |->
          (CHOOSE e \in entries : e[1] = key)[2] ]

\* lines 120-125: key = (org_name, address, city)
KeyOf(row) == << row.org, row.address, row.city >>

\* line 126: key in COORDINATE_OFFSETS
InOffsets(row) == KeyOf(row) \in DOMAIN COORDINATE_OFFSETS

\* the loop writing the latitude of the table and leaving the longitude
FixedRowKeepingLongitude(row) ==
    IF InOffsets(row)
    THEN [row EXCEPT !.latitude = COORDINATE_OFFSETS[KeyOf(row)][1]]
    ELSE row

\* lines 126-132: the row after one iteration of the loop
FixedRow(row) ==
    IF InOffsets(row)
    THEN [row EXCEPT !.latitude  = COORDINATE_OFFSETS[KeyOf(row)][1],
                     !.longitude = COORDINATE_OFFSETS[KeyOf(row)][2]]
    ELSE row

\* lines 143-144: the coordinate pairs more than one row carries
Duplicates(rows) ==
    { c \in { << rows[k].latitude, rows[k].longitude >> : k \in DOMAIN rows } :
        \E k, m \in DOMAIN rows :
            /\ k # m
            /\ << rows[k].latitude, rows[k].longitude >> = c
            /\ << rows[m].latitude, rows[m].longitude >> = c }

\* the rows the RHC file may hold: two organizations, two addresses and two
\* towns, so that a row may share any two columns with a key of the table
\* without being one; coordinates already those of the table or not
FixRows ==
    [ org       : {"PEMISCOT COUNTY MEMORIAL HOSPITAL",
                   "MCPHERSON MEDICAL & DIAGNOSTIC LLC"},
      address   : {"213 S WALNUT ST", "216 W MAIN ST"},
      city      : {"STEELE", "HAYTI"},
      latitude  : {360800, 360838},
      longitude : {-898300},
      rest      : {"RHC"} ]

\* every list of at most n elements of S
ListsUpTo(S, n) == UNION { [1..m -> S] : m \in 0..n }

\* line 164: fix_duplicate_coordinates() run as a script on any RHC file
InitFix ==
    /\ pc = "idle"
    /\ Fresh
    /\ NoMain
    /\ NoCall
    /\ input_file \in ListsUpTo(FixRows, MaxFixRows)
    /\ df = << >>
    /\ idx = 0
    /\ corrections_applied = 0
    /\ output_file = << >>
    /\ calls = << >>
    /\ data_pc = "read"

fix_unchanged == << pc, rows_read, facilities, source_rows, analysis_vars,
                    main_vars, haversine_vars, calls >>

\* lines 112-117
ReadCsv ==
    /\ data_pc = "read"
    /\ df' = input_file
    /\ idx' = 1
    /\ corrections_applied' = 0
    /\ data_pc' = "fix"
    /\ UNCHANGED << input_file, output_file, fix_unchanged >>

\* lines 119-137: one iteration of `for idx, row in df.iterrows()`
FixRow ==
    /\ data_pc = "fix"
    /\ idx <= Len(df)
    /\ df' = [df EXCEPT ![idx] = FixedRow(df[idx])]
    /\ corrections_applied' =
          IF InOffsets(df[idx]) THEN corrections_applied + 1
                                ELSE corrections_applied
    /\ idx' = idx + 1
    /\ UNCHANGED << input_file, output_file, data_pc, fix_unchanged >>

\* lines 139-155: the loop is over; the duplicates left are printed
VerifyUniqueness ==
    /\ data_pc = "fix"
    /\ idx > Len(df)
    /\ data_pc' = IF Duplicates(df) = {} THEN "unique" ELSE "duplicates"
    /\ UNCHANGED << input_file, df, idx, corrections_applied, output_file,
                    fix_unchanged >>

\* lines 158-162
ToCsv ==
    /\ data_pc \in {"unique", "duplicates"}
    /\ output_file' = df
    /\ data_pc' = "saved"
    /\ UNCHANGED << input_file, df, idx, corrections_applied, fix_unchanged >>

NextFix ==
    \/ ReadCsv
    \/ FixRow
    \/ VerifyUniqueness
    \/ ToCsv

SpecFix == InitFix /\ [][NextFix]_vars

\* the rows of the file whose key is in the table
Matching ==
    { k \in DOMAIN input_file :
        KeyOf(input_file[k]) \in DOMAIN COORDINATE_OFFSETS }

\* C28: whenever df holds duplicate coordinates or not, it is saved; the file
\* saved has the rows of the file read, each row whose (ORGANIZATION NAME,
\* ADDRESS LINE 1, CITY) is a key of COORDINATE_OFFSETS with the table's
\* latitude and longitude and nothing else changed, every other row as it
\* was; corrections_applied is the number of rows with such a key; and one
\* more pass of the loop over the saved rows changes none of them.
C28_FixTouchesOnlyTableRows ==
    /\ data_pc \in {"unique", "duplicates"} => ENABLED ToCsv
    /\ data_pc = "saved" =>
          /\ Len(output_file) = Len(input_file)
          /\ \A k \in DOMAIN input_file :
                IF k \in Matching
                THEN output_file[k] =
                       [input_file[k] EXCEPT
                          !.latitude  = COORDINATE_OFFSETS[KeyOf(input_file[k])][1],
                          !.longitude = COORDINATE_OFFSETS[KeyOf(input_file[k])][2]]
                ELSE output_file[k] = input_file[k]
          /\ corrections_applied = Cardinality(Matching)
          /\ \A k \in DOMAIN output_file :
                FixedRow(output_file[k]) = output_file[k]

\* a file was saved with one row moved to the table's place, one row of the
\* same organization and town but another address left where it was, and two
\* rows still on one place
C28_Witness ==
    /\ data_pc = "saved"
    /\ Duplicates(output_file) # {}
    /\ \E k, m \in DOMAIN input_file :
          /\ k \in Matching
          /\ output_file[k] # input_file[k]
          /\ m \notin Matching
          /\ input_file[m].org = input_file[k].org
          /\ input_file[m].city = input_file[k].city
    /\ corrections_applied = 1

---------------------------------------------------------------------------
(* data_processing/download_fqhc_data.py                                   *)
(* A string is the list of its characters.  Coordinates are in 1/10000     *)
(* degree, the precision of city_coords.  A row carries City, Latitude,    *)
(* Longitude, Rural_Urban and `rest`, the value of all its other columns.  *)

\* rows of the frame handed to geocode_fqhcs and classify_rural_urban
MaxFqhc == 2

\* lines 85-100: the city names of the template, as lists of characters
Neosho == <<"N", "e", "o", "s", "h", "o">>
StLouis == <<"S", "t", ".", " ", "L", "o", "u", "i", "s">>
Richland == <<"R", "i", "c", "h", "l", "a", "n", "d">>
Nevada == <<"N", "e", "v", "a", "d", "a">>
Columbia == <<"C", "o", "l", "u", "m", "b", "i", "a">>
Joplin == <<"J", "o", "p", "l", "i", "n">>
Springfield == <<"S", "p", "r", "i", "n", "g", "f", "i", "e", "l", "d">>
KansasCity == <<"K", "a", "n", "s", "a", "s", " ", "C", "i", "t", "y">>

\* lines 173-194: upper-cased city -> (lat, lon)
city_coords ==
  LET entries == {
    << <<"N", "E", "O", "S", "H", "O">>,
       <<368689, -943680>> >>,
    << <<"S", "T", ".", " ", "L", "O", "U", "I", "S">>,
       <<386270, -901994>> >>,
    << <<"S", "A", "I", "N", "T", " ", "L", "O", "U", "I", "S">>,
       <<386270, -901994>> >>,
    << <<"R", "I", "C", "H", "L", "A", "N", "D">>,
       <<378567, -924043>> >>,
    << <<"N", "E", "V", "A", "D", "A">>,
       <<378392, -943547>> >>,
    << <<"C", "O", "L", "U", "M", "B", "I", "A">>,
       <<389517, -923341>> >>,
    << <<"J", "O", "P", "L", "I", "N">>,
       <<370842, -945133>> >>,
    << <<"S", "P", "R", "I", "N", "G", "F", "I", "E", "L", "D">>,
       <<372090, -932923>> >>,
    << <<"K", "A", "N", "S", "A", "S", " ", "C", "I", "T", "Y">>,
       <<390997, -945786>> >>,
    << <<"I", "N", "D", "E", "P", "E", "N", "D", "E", "N", "C", "E">>,
       <<390911, -944155>> >>,
    << <<"J", "E", "F", "F", "E", "R", "S", "O", "N", " ", "C", "I", "T", "Y">>,
       <<385767, -921735>> >>,
    << <<"C", "A", "P", "E", " ", "G", "I", "R", "A", "R", "D", "E", "A", "U">>,
       <<373058, -895181>> >>,
    << <<"S", "E", "D", "A", "L", "I", "A">>,
       <<387045, -932283>> >>,
    << <<"R", "O", "L", "L", "A">>,
       <<379486, -917715>> >>,
    << <<"F", "A", "R", "M", "I", "N", "G", "T", "O", "N">>,
       <<377806, -904218>> >>,
    << <<"P", "O", "P", "L", "A", "R", " ", "B", "L", "U", "F", "F">>,
       <<367570, -903929>> >>,
    << <<"K", "I", "R", "K", "S", "V", "I", "L", "L", "E">>,
       <<401948, -925832>> >>,
    << <<"W", "A", "R", "R", "E", "N", "S", "B", "U", "R", "G">>,
       <<387628, -937360>> >>,
    << <<"W", "E", "S", "T", " ", "P", "L", "A", "I", "N", "S">>,
       <<367323, -918524>> >>,
    << <<"M", "A", "R", "S", "H", "F", "I", "E", "L", "D">>,
       <<373387, -929071>> >> }
  IN  [ city \in { e[1] : e \in entries } |->
          (CHOOSE e \in entries : e[1] = city)[2] ]

\* lines 213-230
urban_cities == <<
    <<"S", "T", ".", " ", "L", "O", "U", "I", "S">>,
    <<"S", "A", "I", "N", "T", " ", "L", "O", "U", "I", "S">>,
    <<"K", "A", "N", "S", "A", "S", " ", "C", "I", "T", "Y">>,
    <<"S", "P", "R", "I", "N", "G", "F", "I", "E", "L", "D">>,
    <<"C", "O", "L", "U", "M", "B", "I", "A">>,
    <<"I", "N", "D", "E", "P", "E", "N", "D", "E", "N", "C", "E">>,
    <<"L", "E", "E", "'", "S", " ", "S", "U", "M", "M", "I", "T">>,
    <<"O", "'", "F", "A", "L", "L", "O", "N">>,
    <<"S", "T", ".", " ", "J", "O", "S", "E", "P", "H">>,
    <<"S", "T", ".", " ", "C", "H", "A", "R", "L", "E", "S">>,
    <<"B", "L", "U", "E", " ", "S", "P", "R", "I", "N", "G", "S">>,
    <<"F", "L", "O", "R", "I", "S", "S", "A", "N", "T">>,
    <<"J", "O", "P", "L", "I", "N">>,
    <<"C", "H", "E", "S", "T", "E", "R", "F", "I", "E", "L", "D">>,
    <<"J", "E", "F", "F", "E", "R", "S", "O", "N", " ", "C", "I", "T", "Y">>,
    <<"C", "A", "P", "E", " ", "G", "I", "R", "A", "R", "D", "E", "A", "U">> >>

\* lines 66-125: the rows of the template (its other columns are constant)
TemplateCity == <<
    Neosho,
    StLouis,
    StLouis,
    StLouis,
    Richland,
    Nevada,
    Columbia,
    Columbia,
    Joplin,
    StLouis,
    Springfield,
    StLouis,
    KansasCity,
    KansasCity >>
TemplateRuralUrban == <<
    "Rural",
    "Urban",
    "Urban",
    "Urban",
    "Rural",
    "Rural",
    "Urban",
    "Urban",
    "Urban",
    "Urban",
    "Urban",
    "Urban",
    "Urban",
    "Urban" >>

Template ==
    [ k \in DOMAIN TemplateCity |->
        [ City |-> TemplateCity[k], Latitude |-> 0, Longitude |-> 0,
          Rural_Urban |-> TemplateRuralUrban[k], rest |-> "FQHC" ] ]

\* a city the lists do not name, and one that holds the name of another
Hermann == <<"H", "e", "r", "m", "a", "n", "n">>
NorthKansasCity == <<"N", "o", "r", "t", "h", " "
                   >> \o KansasCity
\* a missing City (NaN): no list of characters
MissingCity == << "NaN" >>

\* the value of a frame's Rural_Urban cells when it has no such column
NoColumn == "no column"

LowerCase == << "a", "b", "c", "d", "e", "f", "g", "h", "i", "j", "k", "l", "m",
                "n", "o", "p", "q", "r", "s", "t", "u", "v", "w", "x", "y", "z" >>
UpperCase == << "A", "B", "C", "D", "E", "F", "G", "H", "I", "J", "K", "L", "M",
                "N", "O", "P", "Q", "R", "S", "T", "U", "V", "W", "X", "Y", "Z" >>

\* str(x) of a City cell: NaN prints as nan
str(city) == IF city = MissingCity THEN << "n", "a", "n" >> ELSE city

\* str.upper, on the characters the cities are written in
upper(s) ==
    [ k \in DOMAIN s |->
        IF \E n \in DOMAIN LowerCase : LowerCase[n] = s[k]
        THEN UpperCase[CHOOSE n \in DOMAIN LowerCase : LowerCase[n] = s[k]]
        ELSE s[k] ]

\* `sub in s` of two strings
Contains(s, sub) ==
    \E o \in 0..(Len(s) - Len(sub)) : SubSeq(s, o + 1, o + Len(sub)) = sub

\* the frames the functions may be handed: each row in a city of the table, a
\* city holding the name of one, a city unknown or no city; without
\* coordinates (0 or missing) or with a latitude alone
FqhcPlaces ==
    [ City : {StLouis, NorthKansasCity, Hermann, MissingCity},
      at   : { <<0, 0>>, <<NaN, NaN>>, <<385000, 0>> } ]

FqhcRows(labels) ==
    { [ City |-> p.City, Latitude |-> p.at[1], Longitude |-> p.at[2],
        Rural_Urban |-> label, rest |-> "FQHC" ] :
      p \in FqhcPlaces, label \in labels }

\* lines 254-260: main holds the frame download_hrsa_fqhc_data returned, the
\* template or any frame with or without a Rural_Urban column
InitFqhc ==
    /\ pc = "idle"
    /\ Fresh
    /\ NoMain
    /\ NoCall
    /\ input_file \in ListsUpTo(FqhcRows({"Rural", "Urban"}), MaxFqhc)
                      \cup ListsUpTo(FqhcRows({NoColumn}), MaxFqhc)
                      \cup {Template}
    /\ df = input_file
    /\ idx = 0
    /\ corrections_applied = 0
    /\ output_file = << >>
    /\ calls = << >>
    /\ data_pc = "frame"

fqhc_unchanged == << pc, rows_read, facilities, source_rows, analysis_vars,
                     main_vars, haversine_vars, input_file, idx,
                     corrections_applied, output_file, data_pc >>

\* the test of line 197 made on either coordinate
NeedsCoordinatesEither(row) ==
    \/ row.Latitude = 0 \/ isna(row.Latitude)
    \/ row.Longitude = 0 \/ isna(row.Longitude)

\* line 197: row["Latitude"] == 0 or pd.isna(row["Latitude"])
NeedsCoordinates(row) == row.Latitude = 0 \/ isna(row.Latitude)

\* lines 197-201: the row after one iteration of the loop of geocode_fqhcs
GeocodedRow(row) ==
    LET city == upper(str(row.City))
    IN  IF NeedsCoordinates(row) /\ city \in DOMAIN city_coords
        THEN [row EXCEPT !.Latitude  = city_coords[city][1],
                         !.Longitude = city_coords[city][2]]
        ELSE row

\* lines 196-204
geocode_fqhcs(frame) == [ k \in DOMAIN frame |-> GeocodedRow(frame[k]) ]

\* the number of calls made of the two functions
MaxCalls == 2

\* line 257, or any other call of geocode_fqhcs
GeocodeFqhcs ==
    /\ data_pc = "frame"
    /\ Len(calls) < MaxCalls
    /\ df' = geocode_fqhcs(df)
    /\ calls' = Append(calls, "geocode_fqhcs")
    /\ UNCHANGED fqhc_unchanged

\* the test of line 238 made on the whole name
IsUrbanByName(city) == \E n \in DOMAIN urban_cities : urban_cities[n] = city

\* line 238: any(urban in city for urban in urban_cities)
IsUrban(city) == \E n \in DOMAIN urban_cities : Contains(city, urban_cities[n])

\* lines 237-241: the row after one iteration of the loop
ClassifiedRow(row) ==
    [row EXCEPT !.Rural_Urban =
        IF IsUrban(upper(str(row.City))) THEN "Urban" ELSE "Rural"]

\* lines 233-234: the column added when the frame has none
WithRuralUrban(frame) ==
    [ k \in DOMAIN frame |->
        IF frame[k].Rural_Urban = NoColumn
        THEN [frame[k] EXCEPT !.Rural_Urban = "Rural"]
        ELSE frame[k] ]

\* lines 233-243
classify_rural_urban(frame) ==
    [ k \in DOMAIN frame |-> ClassifiedRow(WithRuralUrban(frame)[k]) ]

\* line 260, or any other call of classify_rural_urban
ClassifyRuralUrban ==
    /\ data_pc = "frame"
    /\ Len(calls) < MaxCalls
    /\ df' = classify_rural_urban(df)
    /\ calls' = Append(calls, "classify_rural_urban")
    /\ UNCHANGED fqhc_unchanged

NextFqhc ==
    \/ GeocodeFqhcs
    \/ ClassifyRuralUrban

SpecFqhc == InitFqhc /\ [][NextFqhc]_vars

\* the function named was called on df
Called(name) == \E n \in DOMAIN calls : calls[n] = name

\* the two rows agree on every column but Latitude, Longitude and Rural_Urban
SameElsewhere(a, b) == a.City = b.City /\ a.rest = b.rest

\* C29: once geocode_fqhcs has been called, a row that came with Latitude 0 or
\* missing and a City whose upper-cased name is a key of city_coords has that
\* city's latitude and longitude; every other row (a Latitude that is neither
\* 0 nor missing, whatever its Longitude, or a city that is no key) has the
\* coordinates it came with; no other column is written; and every row of
\* the 14-row template has a non-zero Latitude and Longitude.
C29_GeocodeOnlyZeroLatitudeKnownCity ==
    Called("geocode_fqhcs") =>
        /\ Len(df) = Len(input_file)
        /\ \A k \in DOMAIN input_file :
              LET was  == input_file[k]
                  city == upper(str(was.City))
              IN  /\ SameElsewhere(was, df[k])
                  /\ IF (was.Latitude = 0 \/ was.Latitude = NaN)
                        /\ city \in DOMAIN city_coords
                     THEN /\ df[k].Latitude = city_coords[city][1]
                          /\ df[k].Longitude = city_coords[city][2]
                     ELSE /\ df[k].Latitude = was.Latitude
                          /\ df[k].Longitude = was.Longitude
        /\ input_file = Template =>
              /\ Len(df) = 14
              /\ \A k \in DOMAIN df :
                    /\ df[k].Latitude \notin {0, NaN}
                    /\ df[k].Longitude \notin {0, NaN}

\* geocode_fqhcs was called on two rows of St. Louis: the one without
\* coordinates has those of the city, the one with a latitude and longitude 0
\* is as it came
C29_Witness ==
    /\ Called("geocode_fqhcs")
    /\ Len(df) = 2
    /\ input_file[1].City = StLouis /\ input_file[1].Latitude = 0
    /\ df[1].Latitude = 386270 /\ df[1].Longitude = -901994
    /\ input_file[2].City = StLouis /\ input_file[2].Latitude = 385000
    /\ df[2].Latitude = 385000 /\ df[2].Longitude = 0

\* C30: once classify_rural_urban has been called, every row's Rural_Urban is
\* "Urban" if its upper-cased City holds a name of urban_cities as a
\* substring and "Rural" if not, whatever label (or none) the row came with;
\* no other column is written by it; and calling it once more leaves the
\* frame as it is.
C30_ClassifyOverwritesBySubstring ==
    Called("classify_rural_urban") =>
        /\ Len(df) = Len(input_file)
        /\ \A k \in DOMAIN df :
              LET city == upper(str(input_file[k].City))
              IN  /\ SameElsewhere(input_file[k], df[k])
                  /\ df[k].Rural_Urban =
                        IF \E n \in DOMAIN urban_cities :
                              \E o \in 0..(Len(city) - Len(urban_cities[n])) :
                                 \A c \in DOMAIN urban_cities[n] :
                                    city[o + c] = urban_cities[n][c]
                        THEN "Urban" ELSE "Rural"
        /\ classify_rural_urban(df) = df
        /\ ~Called("geocode_fqhcs") =>
              \A k \in DOMAIN df :
                  /\ df[k].Latitude = input_file[k].Latitude
                  /\ df[k].Longitude = input_file[k].Longitude

\* classify_rural_urban was called twice on a frame whose first row, in
\* North Kansas City, came labelled Rural and is Urban, and whose second
\* row, in Hermann, came labelled Urban and is Rural
C30_Witness ==
    /\ calls = << "classify_rural_urban", "classify_rural_urban" >>
    /\ Len(df) = 2
    /\ input_file[1].City = NorthKansasCity
    /\ input_file[1].Rural_Urban = "Rural"
    /\ df[1].Rural_Urban = "Urban"
    /\ input_file[2].City = Hermann
    /\ input_file[2].Rural_Urban = "Urban"
    /\ df[2].Rural_Urban = "Rural"

====
